---- MODULE Spec2Model ----
(***************************************************************************)
(* A model of the Autonomous Task Intelligence Engine of the AEIP project  *)
(* management repository (rag_service and api_service).                    *)
(*                                                                         *)
(* These specifications share this module:                                 *)
(*   SpecGraph      gantt_agent.py   DependencyImpactAnalysis              *)
(*   SpecIndex      main.py          the FAISS memory index, one request   *)
(*                                   at a time                             *)
(*   SpecIndexConc  main.py          the same handlers run by concurrent   *)
(*                                   worker threads, statement by statement*)
(*   Spec           routes/, services/, api_service/main.py: users, tasks, *)
(*                                   assignment and completion             *)
(*   SpecWait       create_task and complete_task around their call of the *)
(*                                   advisory, which may never answer      *)
(*   SpecScore      routes/tasks.py  the assignment decision on every      *)
(*                                   candidate pool within the bounds      *)
(*   SpecPerf       services/performance_service.py on databases with      *)
(*                                   tasks and observations inside and     *)
(*                                   outside the 90-day window             *)
(*   SpecLearn      complete_task (autonomous side) for every stored       *)
(*                                   reliabilityScore                      *)
(*   SpecFeed       complete_task next to the /add handler of the index    *)
(*   SpecScoreConc  the score loop of create_task between the writes of    *)
(*                                   other requests                        *)
(*   SpecRag        api_service/rag_integration.py on drawn tasks and      *)
(*                                   answers of the RAG service            *)
(*   SpecLearnConc  two runs of process_task_completion, await by await    *)
(*   SpecComplete   complete_task, both sides of the merge, on one task    *)
(* Every specification leaves the variables of the others unchanged.       *)
(*                                                                         *)
(* Real numbers are fixed point: scores, qualities and confidences are in  *)
(* thousandths (1000 is 1.0).                                              *)
(***************************************************************************)
EXTENDS Integers, Sequences, FiniteSets, TLC

VARIABLES
    \* ---- gantt_agent.py ----
    analyzerTasks,   \* the List[Task] handed to DependencyImpactAnalysis
    graphCall,       \* the last analyzer call and its arguments
    graphResult,     \* what that call returned (or that it raised)
    \* ---- main.py: the memory index ----
    index,           \* the FAISS IndexFlatIP: the stored vectors, in order
    id_map,          \* FAISS position -> memory id
    memory_store,    \* memory id -> Memory
    indexCall,       \* SpecIndex: the request being answered, with its result
    threads,         \* SpecIndexConc: each worker thread's handler, position and locals
    \* ---- the document store (database.py) and the clock ----
    users,           \* db.users, in insertion order
    tasks,           \* db.tasks, in insertion order
    performance_history,  \* db.performance_history, in insertion order
    now,             \* the wall clock, in hours
    dbCall,          \* Spec: the task request being answered, with its result
    completions      \* Spec: how many completion requests have been served

graphVars == <<analyzerTasks, graphCall, graphResult>>
indexVars == <<index, id_map, memory_store, indexCall, threads>>
dbVars == <<users, tasks, performance_history, now, dbCall, completions>>

vars == <<graphVars, indexVars, dbVars>>

NoValue == "None"

(***************************************************************************)
(* Generic helpers on sequences and sets.                                  *)
(***************************************************************************)
SeqToSet(s) == {s[i] : i \in 1..Len(s)}

InSeq(x, s) == \E i \in 1..Len(s) : s[i] = x

AppendNew(s, x) == IF InSeq(x, s) THEN s ELSE Append(s, x)

Min(S) == CHOOSE x \in S : \A y \in S : x <= y

RECURSIVE SetToSortedSeq(_)
SetToSortedSeq(S) ==
    IF S = {} THEN <<>>
    ELSE LET m == Min(S) IN <<m>> \o SetToSortedSeq(S \ {m})

RECURSIVE SumSeq(_)
SumSeq(s) == IF s = <<>> THEN 0 ELSE Head(s) + SumSeq(Tail(s))

(***************************************************************************)
(* MemoryIndex: main.py                                                    *)
(***************************************************************************)
MaxVectors == 3      \* add_memory is not called on an index this full
MaxInit == 2         \* the longest list handed to init_memories

MemoryIds == {"m1", "m2"}
Texts == {"a", "b"}

\* Memory (with its MemoryMetadata; task_type and timestamp are never read)
Memories ==
    [id : MemoryIds, text : Texts,
     metadata : {[user_id |-> "u1", dept_id |-> "d1"], [user_id |-> "u2", dept_id |-> "d2"],
                 [user_id |-> "u2", dept_id |-> "d1"]}]

\* SearchQuery
Queries ==
    [text : Texts, top_k : {1, 2},
     filter_user_id : {NoValue, "u1"}, filter_dept_id : {NoValue, "d1"}]

\* model.encode: the embedding collaborator. all-MiniLM-L6-v2 ends in a
\* normalisation layer: its vectors have unit length (10 here, two dimensions).
Encode(text) == IF text = "a" THEN <<10, 0>> ELSE <<6, 8>>

ISqrt(x) == CHOOSE r \in 0..x : r * r <= x /\ (r + 1) * (r + 1) > x

\* faiss.normalize_L2, in place, on one row
NormalizeL2(v) ==
    LET norm == ISqrt(v[1] * v[1] + v[2] * v[2])
    IN IF norm = 0 THEN v ELSE <<(v[1] * 10) \div norm, (v[2] * 10) \div norm>>

\* get_embedding: normalize_L2 acts on a temporary copy; the vector returned
\* is the encoder's own
GetEmbedding(text) == Encode(text)

InnerProduct(v, w) == v[1] * w[1] + v[2] * w[2]

RECURSIVE BestFirst(_, _, _, _)
BestFirst(ix, q, k, left) ==
    IF k = 0 \/ left = {} THEN <<>>
    ELSE LET best == CHOOSE i \in left : \A j \in left :
                        \/ InnerProduct(ix[j], q) < InnerProduct(ix[i], q)
                        \/ (InnerProduct(ix[j], q) = InnerProduct(ix[i], q) /\ i <= j)
         IN <<[idx |-> best, distance |-> InnerProduct(ix[best], q)]>>
              \o BestFirst(ix, q, k - 1, left \ {best})

\* IndexFlatIP.search: the k_search nearest positions (1-based here) by
\* descending inner product, equal products by ascending position; when the
\* index holds fewer than k_search vectors the rest of the row is -1
IndexSearch(ix, q, k_search) ==
    LET found == BestFirst(ix, q, k_search, 1..Len(ix))
    IN found \o [i \in 1..(k_search - Len(found)) |-> [idx |-> -1, distance |-> -1]]

MinOf(a, b) == IF a <= b THEN a ELSE b

\* k_search = min(query.top_k * 5, index.ntotal)
KSearch(query, ntotal) == MinOf(query.top_k * 5, ntotal)

\* The user-id filter is not applied.
PassesFiltersNoUserCheck(query, memory) ==
    ~(query.filter_dept_id # NoValue /\ memory.metadata.dept_id # query.filter_dept_id)

\* search_memories, "3. Apply Filters": whether a memory is kept
PassesFilters(query, memory) ==
    /\ ~(query.filter_user_id # NoValue /\ memory.metadata.user_id # query.filter_user_id)
    /\ ~(query.filter_dept_id # NoValue /\ memory.metadata.dept_id # query.filter_dept_id)

SearchResult(memory, distance) ==
    [id |-> memory.id, text |-> memory.text, score |-> distance, metadata |-> memory.metadata]

\* the pass of the result loop without its `break` at top_k results
SearchStepWithoutBreak(query, hit, idmap, store, results) ==
    IF hit.idx = -1
    THEN [raised |-> NoValue, missing |-> FALSE, results |-> results, stop |-> FALSE]
    ELSE IF hit.idx > Len(idmap)
    THEN [raised |-> "IndexError", missing |-> FALSE, results |-> results, stop |-> TRUE]
    ELSE LET mem_id == idmap[hit.idx] IN
         IF mem_id \notin DOMAIN store \/ ~PassesFilters(query, store[mem_id])
         THEN [raised |-> NoValue, missing |-> mem_id \notin DOMAIN store,
               results |-> results, stop |-> FALSE]
         ELSE [raised |-> NoValue, missing |-> FALSE,
               results |-> Append(results, SearchResult(store[mem_id], hit.distance)),
               stop |-> FALSE]

\* One pass of the result loop of search_memories for the hit `hit`, against
\* the id_map and memory_store of that moment.
SearchStep(query, hit, idmap, store, results) ==
    IF hit.idx = -1
    THEN [raised |-> NoValue, missing |-> FALSE, results |-> results, stop |-> FALSE]
    ELSE IF hit.idx > Len(idmap)
    THEN [raised |-> "IndexError", missing |-> FALSE, results |-> results, stop |-> TRUE]
    ELSE LET mem_id == idmap[hit.idx] IN
         IF mem_id \notin DOMAIN store
         THEN [raised |-> NoValue, missing |-> TRUE, results |-> results, stop |-> FALSE]
         ELSE IF ~PassesFilters(query, store[mem_id])
         THEN [raised |-> NoValue, missing |-> FALSE, results |-> results, stop |-> FALSE]
         ELSE LET rs == Append(results, SearchResult(store[mem_id], hit.distance))
              IN [raised |-> NoValue, missing |-> FALSE, results |-> rs,
                  stop |-> Len(rs) >= query.top_k]

RECURSIVE SearchLoop(_, _, _, _, _)
SearchLoop(query, hits, idmap, store, results) ==
    IF hits = <<>> THEN [raised |-> NoValue, value |-> results]
    ELSE LET r == SearchStep(query, Head(hits), idmap, store, results)
         IN IF r.raised # NoValue THEN [raised |-> r.raised, value |-> <<>>]
            ELSE IF r.stop THEN [raised |-> NoValue, value |-> r.results]
            ELSE SearchLoop(query, Tail(hits), idmap, store, r.results)

\* search_memories, run alone
SearchMemoriesResult(query, ix, idmap, store) ==
    IF Len(ix) = 0 THEN [raised |-> NoValue, value |-> <<>>]
    ELSE SearchLoop(query,
                    IndexSearch(ix, GetEmbedding(query.text), KSearch(query, Len(ix))),
                    idmap, store, <<>>)

\* memory_store[memory.id] = memory
StorePut(store, memory) ==
    [k \in (DOMAIN store) \cup {memory.id} |-> IF k = memory.id THEN memory ELSE store[k]]

RECURSIVE StorePutAll(_, _)
StorePutAll(store, memories) ==
    IF memories = <<>> THEN store
    ELSE StorePutAll(StorePut(store, Head(memories)), Tail(memories))

GraphUnused ==
    /\ analyzerTasks = <<>>
    /\ graphCall = [op |-> "none"]
    /\ graphResult = [raised |-> NoValue, value |-> <<>>]

DbIdle == [op |-> "idle"]

\* the clock counts hours and moves in steps of thirty days, the period of
\* math.exp(-days_ago / 30)
DecayPeriodHours == 30 * 24

\* the collections of a fresh database, thirty days after the epoch
InitDbState ==
    /\ users = <<>>
    /\ tasks = <<>>
    /\ performance_history = <<>>
    /\ now = DecayPeriodHours

DbUnused == InitDbState /\ dbCall = DbIdle /\ completions = 0

IndexIdle == [op |-> "idle"]
NoThreads == <<>>

\* the index as the module creates it
InitIndexState ==
    /\ index = <<>>
    /\ id_map = <<>>
    /\ memory_store = <<>>

IndexUnused ==
    /\ InitIndexState
    /\ indexCall = IndexIdle
    /\ threads = NoThreads

\* add_memory
AddMemory ==
    \E memory \in Memories :
        /\ indexCall = IndexIdle
        /\ Len(index) < MaxVectors
        /\ index' = Append(index, GetEmbedding(memory.text))
        /\ id_map' = Append(id_map, memory.id)
        /\ memory_store' = StorePut(memory_store, memory)
        /\ indexCall' = [op |-> "add", memory |-> memory, raised |-> NoValue,
                         value |-> [status |-> "added", id |-> memory.id]]
        /\ UNCHANGED <<threads, graphVars, dbVars>>

MemoryLists == UNION {[1..n -> Memories] : n \in 0..MaxInit}

\* init_memories without its reset: the list is added to what is there
InitMemoriesWithoutReset ==
    \E memories \in MemoryLists :
        /\ indexCall = IndexIdle
        /\ Len(index) + Len(memories) <= MaxVectors
        /\ index' = index \o [i \in 1..Len(memories) |-> NormalizeL2(Encode(memories[i].text))]
        /\ id_map' = id_map \o [i \in 1..Len(memories) |-> memories[i].id]
        /\ memory_store' = StorePutAll(memory_store, memories)
        /\ indexCall' = [op |-> "init", memories |-> memories, raised |-> NoValue,
                         ntotal_before |-> Len(index),
                         value |-> IF memories = <<>> THEN [status |-> "cleared"]
                                   ELSE [status |-> "initialized", count |-> Len(memories)]]
        /\ UNCHANGED <<threads, graphVars, dbVars>>

\* init_memories; the call record keeps how many vectors the index held
InitMemories ==
    \E memories \in MemoryLists :
        /\ indexCall = IndexIdle
        /\ index' = [i \in 1..Len(memories) |-> NormalizeL2(Encode(memories[i].text))]
        /\ id_map' = [i \in 1..Len(memories) |-> memories[i].id]
        /\ memory_store' = StorePutAll(<<>>, memories)
        /\ indexCall' = [op |-> "init", memories |-> memories, raised |-> NoValue,
                         ntotal_before |-> Len(index),
                         value |-> IF memories = <<>> THEN [status |-> "cleared"]
                                   ELSE [status |-> "initialized", count |-> Len(memories)]]
        /\ UNCHANGED <<threads, graphVars, dbVars>>

\* search_memories
SearchMemories ==
    \E query \in Queries :
        /\ indexCall = IndexIdle
        /\ LET r == SearchMemoriesResult(query, index, id_map, memory_store)
           IN indexCall' = [op |-> "search", query |-> query,
                            raised |-> r.raised, value |-> r.value]
        /\ UNCHANGED <<index, id_map, memory_store, threads, graphVars, dbVars>>

\* the response is sent: the service takes the next request
IndexRespond ==
    /\ indexCall # IndexIdle
    /\ indexCall' = IndexIdle
    /\ UNCHANGED <<index, id_map, memory_store, threads, graphVars, dbVars>>

InitIndex == IndexUnused /\ GraphUnused /\ DbUnused

NextIndex == AddMemory \/ InitMemories \/ SearchMemories \/ IndexRespond

SpecIndex == InitIndex /\ [][NextIndex]_vars

(***************************************************************************)
(* SpecIndexConc: the three handlers are plain `def` endpoints, which the  *)
(* framework runs on worker threads; they share index, id_map and          *)
(* memory_store without a lock. One action is one statement of a handler.  *)
(***************************************************************************)
\* one thread that serves the mutating requests and one that serves the
\* searches: the interleavings of a search with one insert or bulk load
Writers == {"t1"}
Readers == {"t2"}
ThreadIds == Writers \cup Readers

ConcMemories == {m \in Memories : m.text = "a" /\ m.metadata.user_id = "u1"}
ConcMemoryLists == UNION {[1..n -> ConcMemories] : n \in 0..MaxInit}
ConcQueries == {q \in Queries : q.text = "a" /\ q.filter_user_id = NoValue
                                /\ q.filter_dept_id = NoValue}

IdleThread == [pc |-> "idle"]

SetThread(t, r) == threads' = [threads EXCEPT ![t] = r]

\* a request arrives and a worker thread takes it
StartAdd(t) ==
    \E memory \in ConcMemories :
        /\ t \in Writers
        /\ threads[t] = IdleThread
        /\ Len(index) < MaxVectors
        /\ SetThread(t, [pc |-> "add_index", memory |-> memory])
        /\ UNCHANGED <<index, id_map, memory_store, indexCall, graphVars, dbVars>>

StartInit(t) ==
    \E memories \in ConcMemoryLists :
        /\ t \in Writers
        /\ threads[t] = IdleThread
        /\ SetThread(t, [pc |-> "init_index", memories |-> memories])
        /\ UNCHANGED <<index, id_map, memory_store, indexCall, graphVars, dbVars>>

StartSearch(t) ==
    \E query \in ConcQueries :
        /\ t \in Readers
        /\ threads[t] = IdleThread
        /\ SetThread(t, [pc |-> "search_empty", query |-> query])
        /\ UNCHANGED <<index, id_map, memory_store, indexCall, graphVars, dbVars>>

\* add_memory: vec = get_embedding(...); index.add(vector_np)
AddIndexStep(t) ==
    /\ threads[t].pc = "add_index"
    /\ index' = Append(index, GetEmbedding(threads[t].memory.text))
    /\ SetThread(t, [threads[t] EXCEPT !.pc = "add_id_map"])
    /\ UNCHANGED <<id_map, memory_store, indexCall, graphVars, dbVars>>

\* add_memory: id_map.append(memory.id)
AddIdMapStep(t) ==
    /\ threads[t].pc = "add_id_map"
    /\ id_map' = Append(id_map, threads[t].memory.id)
    /\ SetThread(t, [threads[t] EXCEPT !.pc = "add_store"])
    /\ UNCHANGED <<index, memory_store, indexCall, graphVars, dbVars>>

\* add_memory: memory_store[memory.id] = memory; return
AddStoreStep(t) ==
    /\ threads[t].pc = "add_store"
    /\ memory_store' = StorePut(memory_store, threads[t].memory)
    /\ SetThread(t, IdleThread)
    /\ UNCHANGED <<index, id_map, indexCall, graphVars, dbVars>>

\* init_memories: index = faiss.IndexFlatIP(EMBEDDING_DIM)
InitIndexStep(t) ==
    /\ threads[t].pc = "init_index"
    /\ index' = <<>>
    /\ SetThread(t, [threads[t] EXCEPT !.pc = "init_id_map"])
    /\ UNCHANGED <<id_map, memory_store, indexCall, graphVars, dbVars>>

\* init_memories: id_map = []
InitIdMapStep(t) ==
    /\ threads[t].pc = "init_id_map"
    /\ id_map' = <<>>
    /\ SetThread(t, [threads[t] EXCEPT !.pc = "init_store"])
    /\ UNCHANGED <<index, memory_store, indexCall, graphVars, dbVars>>

\* init_memories: memory_store = {}; if not memories: return
InitStoreStep(t) ==
    /\ threads[t].pc = "init_store"
    /\ memory_store' = <<>>
    /\ SetThread(t, IF threads[t].memories = <<>> THEN IdleThread
                    ELSE [threads[t] EXCEPT !.pc = "init_add"])
    /\ UNCHANGED <<index, id_map, indexCall, graphVars, dbVars>>

\* init_memories: encode, normalize, index.add(embeddings)
InitAddStep(t) ==
    /\ threads[t].pc = "init_add"
    /\ index' = index \o [i \in 1..Len(threads[t].memories) |->
                            NormalizeL2(Encode(threads[t].memories[i].text))]
    /\ SetThread(t, [pc |-> "init_loop_id_map", memories |-> threads[t].memories, i |-> 1])
    /\ UNCHANGED <<id_map, memory_store, indexCall, graphVars, dbVars>>

\* init_memories: id_map.append(m.id)
InitLoopIdMapStep(t) ==
    /\ threads[t].pc = "init_loop_id_map"
    /\ id_map' = Append(id_map, threads[t].memories[threads[t].i].id)
    /\ SetThread(t, [threads[t] EXCEPT !.pc = "init_loop_store"])
    /\ UNCHANGED <<index, memory_store, indexCall, graphVars, dbVars>>

\* init_memories: memory_store[m.id] = m; next m, or return
InitLoopStoreStep(t) ==
    /\ threads[t].pc = "init_loop_store"
    /\ memory_store' = StorePut(memory_store, threads[t].memories[threads[t].i])
    /\ SetThread(t, IF threads[t].i = Len(threads[t].memories) THEN IdleThread
                    ELSE [threads[t] EXCEPT !.pc = "init_loop_id_map", !.i = @ + 1])
    /\ UNCHANGED <<index, id_map, indexCall, graphVars, dbVars>>

SearchDone(t, raised, missing, value) ==
    [pc |-> "search_return", query |-> threads[t].query,
     raised |-> raised, missing |-> missing, value |-> value]

\* search_memories: if index.ntotal == 0: return []
SearchEmptyStep(t) ==
    /\ threads[t].pc = "search_empty"
    /\ SetThread(t, IF Len(index) = 0 THEN SearchDone(t, NoValue, FALSE, <<>>)
                    ELSE [threads[t] EXCEPT !.pc = "search_k"])
    /\ UNCHANGED <<index, id_map, memory_store, indexCall, graphVars, dbVars>>

\* search_memories: k_search = min(query.top_k * 5, index.ntotal)
SearchKStep(t) ==
    /\ threads[t].pc = "search_k"
    /\ SetThread(t, [pc |-> "search_index", query |-> threads[t].query,
                     k_search |-> KSearch(threads[t].query, Len(index))])
    /\ UNCHANGED <<index, id_map, memory_store, indexCall, graphVars, dbVars>>

\* search_memories: distances, indices = index.search(q_np, k_search)
SearchIndexStep(t) ==
    /\ threads[t].pc = "search_index"
    /\ LET hits == IndexSearch(index, GetEmbedding(threads[t].query.text), threads[t].k_search)
       IN SetThread(t, IF hits = <<>> THEN SearchDone(t, NoValue, FALSE, <<>>)
                       ELSE [pc |-> "search_loop", query |-> threads[t].query,
                             hits |-> hits, missing |-> FALSE, results |-> <<>>])
    /\ UNCHANGED <<index, id_map, memory_store, indexCall, graphVars, dbVars>>

\* search_memories: one pass of the result loop (id_map[idx],
\* memory_store.get, filters, append)
SearchLoopStep(t) ==
    /\ threads[t].pc = "search_loop"
    /\ LET th == threads[t]
           r == SearchStep(th.query, Head(th.hits), id_map, memory_store, th.results)
           missing == th.missing \/ r.missing
       IN SetThread(t,
            IF r.raised # NoValue THEN SearchDone(t, r.raised, missing, <<>>)
            ELSE IF r.stop \/ Tail(th.hits) = <<>>
            THEN SearchDone(t, NoValue, missing, r.results)
            ELSE [th EXCEPT !.hits = Tail(th.hits), !.missing = missing,
                            !.results = r.results])
    /\ UNCHANGED <<index, id_map, memory_store, indexCall, graphVars, dbVars>>

\* search_memories: the response (or the error) leaves the handler
SearchReturnStep(t) ==
    /\ threads[t].pc = "search_return"
    /\ SetThread(t, IdleThread)
    /\ UNCHANGED <<index, id_map, memory_store, indexCall, graphVars, dbVars>>

InitIndexConc ==
    /\ InitIndexState
    /\ indexCall = IndexIdle
    /\ threads = [t \in ThreadIds |-> IdleThread]
    /\ GraphUnused
    /\ DbUnused

NextIndexConc ==
    \E t \in ThreadIds :
        \/ StartAdd(t) \/ AddIndexStep(t) \/ AddIdMapStep(t) \/ AddStoreStep(t)
        \/ StartInit(t) \/ InitIndexStep(t) \/ InitIdMapStep(t) \/ InitStoreStep(t)
        \/ InitAddStep(t) \/ InitLoopIdMapStep(t) \/ InitLoopStoreStep(t)
        \/ StartSearch(t) \/ SearchEmptyStep(t) \/ SearchKStep(t) \/ SearchIndexStep(t)
        \/ SearchLoopStep(t) \/ SearchReturnStep(t)

SpecIndexConc == InitIndexConc /\ [][NextIndexConc]_vars

\* C6: a search that runs while an insert or a bulk load is in progress
\* never meets a stored vector whose position has no id_map entry or whose
\* id has no memory_store record, and never fails on the half-updated index.
C6_SearchSeesWholeRecords ==
    \A t \in ThreadIds :
        threads[t].pc = "search_return" =>
            /\ threads[t].raised = NoValue
            /\ ~threads[t].missing

\* The second half alone: a search skips no hit for want of its record.
C6_SearchMeetsNoMissingRecord ==
    \A t \in ThreadIds : threads[t].pc = "search_return" => ~threads[t].missing

\* C4: add_memory of a record whose id is already stored is a silent no-op:
\* the stored vectors, the position-to-id map and the stored record are
\* unchanged, and no error is raised.
C4_DuplicateInsertIsNoOp ==
    [][(/\ indexCall = IndexIdle
        /\ indexCall'.op = "add"
        /\ indexCall'.memory.id \in DOMAIN memory_store)
          => /\ index' = index
             /\ id_map' = id_map
             /\ memory_store' = memory_store
             /\ indexCall'.raised = NoValue]_vars

\* C5: a search with filter_user_id = X (filter_dept_id = D) returns only
\* records whose metadata.user_id is X (whose metadata.dept_id is D).
C5_SearchFilterIsExact ==
    indexCall.op = "search" =>
        \A i \in 1..Len(indexCall.value) :
            /\ indexCall.query.filter_user_id # NoValue =>
                 indexCall.value[i].metadata.user_id = indexCall.query.filter_user_id
            /\ indexCall.query.filter_dept_id # NoValue =>
                 indexCall.value[i].metadata.dept_id = indexCall.query.filter_dept_id

\* a filtered search that returned a record and passed over a nearer one of
\* another user
C5_Witness ==
    /\ indexCall.op = "search"
    /\ indexCall.query.filter_user_id = "u1"
    /\ Len(indexCall.value) >= 1
    /\ \E i \in 1..Len(id_map) :
         /\ id_map[i] \in DOMAIN memory_store
         /\ memory_store[id_map[i]].metadata.user_id # "u1"
         /\ InnerProduct(index[i], GetEmbedding(indexCall.query.text))
              > indexCall.value[1].score

\* C24: a search returns at most top_k results, each with the inner product
\* of the query and a vector indexed under its id as score, the scores never
\* increasing along the list; on an empty index it returns the empty list
\* and raises nothing.
C24_SearchIsBoundedAndOrdered ==
    indexCall.op = "search" =>
        LET value == indexCall.value
            q == GetEmbedding(indexCall.query.text)
        IN  /\ indexCall.raised = NoValue
            /\ Len(value) <= indexCall.query.top_k
            /\ \A i \in 1..Len(value) :
                  \E p \in 1..Len(index) :
                      /\ id_map[p] = value[i].id
                      /\ value[i].score = InnerProduct(index[p], q)
            /\ \A i, j \in 1..Len(value) : i < j => value[i].score >= value[j].score
            /\ Len(index) = 0 => value = <<>>

\* a search over more vectors than top_k that returned top_k results of
\* different scores although the nearer vector was added last
C24_Witness ==
    /\ indexCall.op = "search"
    /\ indexCall.query.top_k = 2
    /\ Len(index) > 2
    /\ Len(indexCall.value) = 2
    /\ indexCall.value[1].score > indexCall.value[2].score
    /\ InnerProduct(index[Len(index)], GetEmbedding(indexCall.query.text))
          = indexCall.value[1].score
    /\ InnerProduct(index[1], GetEmbedding(indexCall.query.text))
          < indexCall.value[1].score

\* a search answered on an empty index
C24_WitnessEmpty ==
    /\ indexCall.op = "search"
    /\ Len(index) = 0
    /\ indexCall.value = <<>>
    /\ indexCall.raised = NoValue

\* C13: after init_memories the index holds the supplied list and nothing
\* else, whatever it held before: one vector and one id-map entry per
\* supplied record, in order, a stored record for exactly the supplied ids,
\* each of them a supplied record (the record itself where the list repeats
\* no id); an empty list leaves an empty index.
C13_BulkLoadReplacesEverything ==
    (indexCall.op = "init")
    => LET memories == indexCall.memories
           ids == {memories[i].id : i \in 1..Len(memories)}
       IN  /\ Len(index) = Len(memories)
           /\ Len(id_map) = Len(memories)
           /\ \A i \in 1..Len(memories) :
                /\ index[i] = NormalizeL2(Encode(memories[i].text))
                /\ id_map[i] = memories[i].id
           /\ DOMAIN memory_store = ids
           /\ \A id \in ids : \E i \in 1..Len(memories) : memory_store[id] = memories[i]
           /\ (Cardinality(ids) = Len(memories))
                => \A i \in 1..Len(memories) : memory_store[memories[i].id] = memories[i]
           /\ (memories = <<>>) => (index = <<>> /\ id_map = <<>> /\ memory_store = <<>>)

\* a bulk load onto an index that held more vectors than the list has, under
\* ids the list does not have
C13_Witness ==
    /\ indexCall.op = "init"
    /\ indexCall.ntotal_before > Len(indexCall.memories)
    /\ Len(indexCall.memories) = 1
    /\ Len(index) = 1

\* a bulk load of the empty list onto an index that was not empty
C13_WitnessEmpty ==
    /\ indexCall.op = "init"
    /\ indexCall.ntotal_before > 0
    /\ indexCall.memories = <<>>

(***************************************************************************)
(* ScheduleGraphAnalyzer: gantt_agent.py                                   *)
(***************************************************************************)
MaxGraphTasks == 3
MaxEdges == 3

GraphTaskIds == 1..MaxGraphTasks
UnknownTaskId == MaxGraphTasks + 1
Durations == {10, 30}
DelayMinutes == {15}

\* A Task as the analyzer reads it: id, estimatedDuration, dependencies.
\* dependencies is kept in ascending id order.
AnalyzerTask(i, dur, deps) ==
    [id |-> i, estimatedDuration |-> dur, dependencies |-> SetToSortedSeq(deps)]

\* self.tasks = {t.id: t for t in tasks}
TasksById(ts) == {ts[i].id : i \in 1..Len(ts)}

DurationOf(ts, id) == (CHOOSE i \in 1..Len(ts) : ts[i].id = id) \* index of the task
DurationById(ts, id) == ts[DurationOf(ts, id)].estimatedDuration

\* nx.DiGraph: nodes and edges in insertion order.
EmptyGraph == [nodes |-> <<>>, edges |-> <<>>]

\* DiGraph.add_node
AddNode(G, n) == [G EXCEPT !.nodes = AppendNew(G.nodes, n)]

\* DiGraph.add_edge(u, v): adds u, then v, then the edge, each if missing
AddEdge(G, u, v) ==
    [nodes |-> AppendNew(AppendNew(G.nodes, u), v),
     edges |-> AppendNew(G.edges, <<u, v>>)]

RECURSIVE AddDeps(_, _, _, _)
AddDeps(G, known, id, deps) ==
    IF deps = <<>> THEN G
    ELSE LET dep == Head(deps) IN
         AddDeps(IF dep \in known THEN AddEdge(G, dep, id) ELSE G,
                 known, id, Tail(deps))

RECURSIVE BuildFrom(_, _, _)
BuildFrom(G, known, ts) ==
    IF ts = <<>> THEN G
    ELSE LET t == Head(ts) IN
         BuildFrom(AddDeps(AddNode(G, t.id), known, t.id, t.dependencies),
                   known, Tail(ts))

\* DependencyImpactAnalysis._build_graph
BuildGraph(ts) == BuildFrom(EmptyGraph, TasksById(ts), ts)

RECURSIVE SuccOf(_, _)
SuccOf(es, u) ==
    IF es = <<>> THEN <<>>
    ELSE (IF Head(es)[1] = u THEN <<Head(es)[2]>> ELSE <<>>) \o SuccOf(Tail(es), u)

RECURSIVE PredOf(_, _)
PredOf(es, v) ==
    IF es = <<>> THEN <<>>
    ELSE (IF Head(es)[2] = v THEN <<Head(es)[1]>> ELSE <<>>) \o PredOf(Tail(es), v)

\* G.successors(n), G.pred[n]: in the order the edges were added
Successors(G, n) == SuccOf(G.edges, n)
Predecessors(G, n) == PredOf(G.edges, n)

InDegree(G, n) == Len(Predecessors(G, n))

RECURSIVE VisitChildren(_, _, _)
VisitChildren(children, indegree_map, zero_indegree) ==
    IF children = <<>> THEN [indegree_map |-> indegree_map, zero_indegree |-> zero_indegree]
    ELSE LET child == Head(children)
             d == indegree_map[child] - 1
         IN VisitChildren(Tail(children),
                          [indegree_map EXCEPT ![child] = d],
                          IF d = 0 THEN Append(zero_indegree, child) ELSE zero_indegree)

RECURSIVE VisitGeneration(_, _, _, _)
VisitGeneration(G, generation, indegree_map, zero_indegree) ==
    IF generation = <<>> THEN [indegree_map |-> indegree_map, zero_indegree |-> zero_indegree]
    ELSE LET r == VisitChildren(Successors(G, Head(generation)), indegree_map, zero_indegree)
         IN VisitGeneration(G, Tail(generation), r.indegree_map, r.zero_indegree)

RECURSIVE Generations(_, _, _, _)
Generations(G, indegree_map, zero_indegree, order) ==
    IF zero_indegree = <<>>
    THEN [order |-> order,
          unfeasible |-> \E n \in DOMAIN indegree_map : indegree_map[n] > 0]
    ELSE LET r == VisitGeneration(G, zero_indegree, indegree_map, <<>>)
         IN Generations(G, r.indegree_map, r.zero_indegree, order \o zero_indegree)

\* nx.topological_sort (over nx.topological_generations): the nodes it yields,
\* and whether it ends by raising NetworkXUnfeasible (a cycle).
TopologicalSort(G) ==
    Generations(G,
                [n \in SeqToSet(G.nodes) |-> InDegree(G, n)],
                SelectSeq(G.nodes, LAMBDA n : InDegree(G, n) = 0),
                <<>>)

\* Python's max(seq, key=...): the first element with the greatest key.
FirstMaxIndex(keys) ==
    CHOOSE i \in 1..Len(keys) :
        /\ \A j \in 1..Len(keys) : keys[j] <= keys[i]
        /\ \A j \in 1..(i - 1) : keys[j] < keys[i]

\* The weight dag_longest_path gives an edge: data.get("weight", 1). The
\* analyzer stores the duration on the node, so every edge counts 1.
EdgeWeight(G, u, v) == 1

\* dist[v] = (length, u) for one node v, from its predecessors' entries
DistEntry(G, dist, v) ==
    LET preds == Predecessors(G, v)
        us == [i \in 1..Len(preds) |->
                 [length |-> dist[preds[i]].length + EdgeWeight(G, preds[i], v),
                  from |-> preds[i]]]
    IN IF us = <<>> THEN [length |-> 0, from |-> v]
       ELSE LET maxu == us[FirstMaxIndex([i \in 1..Len(us) |-> us[i].length])]
            IN IF maxu.length >= 0 THEN maxu ELSE [length |-> 0, from |-> v]

RECURSIVE DistOver(_, _, _)
DistOver(G, order, dist) ==
    IF order = <<>> THEN dist
    ELSE LET v == Head(order)
             e == DistEntry(G, dist, v)
         IN DistOver(G, Tail(order),
                     [n \in (DOMAIN dist) \cup {v} |-> IF n = v THEN e ELSE dist[n]])

RECURSIVE WalkBack(_, _, _)
WalkBack(dist, v, path) ==
    LET next == dist[v].from
    IN IF next = v THEN <<v>> \o path ELSE WalkBack(dist, next, <<v>> \o path)

\* nx.dag_longest_path(G) with its defaults
DagLongestPath(G) ==
    IF G.nodes = <<>> THEN [raised |-> NoValue, value |-> <<>>]
    ELSE LET topo == TopologicalSort(G)
             dist == DistOver(G, topo.order, <<>>)
         IN IF topo.unfeasible
            THEN [raised |-> "NetworkXUnfeasible", value |-> <<>>]
            ELSE LET v == topo.order[FirstMaxIndex(
                              [i \in 1..Len(topo.order) |-> dist[topo.order[i]].length])]
                 IN [raised |-> NoValue, value |-> WalkBack(dist, v, <<>>)]

\* The except clause misses the exception dag_longest_path raises.
CalculateCriticalPathUncaught(ts) ==
    IF ts = <<>> THEN [raised |-> NoValue, value |-> <<>>]
    ELSE DagLongestPath(BuildGraph(ts))

\* DependencyImpactAnalysis.calculate_critical_path
CalculateCriticalPath(ts) ==
    IF ts = <<>> THEN [raised |-> NoValue, value |-> <<>>]
    ELSE LET r == DagLongestPath(BuildGraph(ts))
         IN IF r.raised = "NetworkXUnfeasible"
            THEN [raised |-> NoValue, value |-> <<>>]
            ELSE r

\* A successor inherits the delay doubled instead of unchanged.
SuccessorDelayCompounding(current_delay) == current_delay + current_delay

\* queue.append((successor, current_delay)): the delay handed to a successor
SuccessorDelay(current_delay) == current_delay

RECURSIVE Enqueue(_, _, _, _)
Enqueue(succs, current_delay, queue, visited) ==
    IF succs = <<>> THEN [queue |-> queue, visited |-> visited]
    ELSE LET s == Head(succs) IN
         IF s \in visited
         THEN Enqueue(Tail(succs), current_delay, queue, visited)
         ELSE Enqueue(Tail(succs), current_delay,
                      Append(queue, <<s, SuccessorDelay(current_delay)>>),
                      visited \cup {s})

RECURSIVE Bfs(_, _, _, _, _)
Bfs(G, delayed_task_id, queue, visited, impacted_tasks) ==
    IF queue = <<>> THEN impacted_tasks
    ELSE LET current_id == Head(queue)[1]
             current_delay == Head(queue)[2]
             impacted == IF current_id # delayed_task_id
                         THEN impacted_tasks \cup {<<current_id, current_delay>>}
                         ELSE impacted_tasks
             r == Enqueue(Successors(G, current_id), current_delay, Tail(queue), visited)
         IN Bfs(G, delayed_task_id, r.queue, r.visited, impacted)

\* DependencyImpactAnalysis.simulate_delay: the returned dict as a set of
\* <<task id, delay>> pairs (one pair per key: a key is stored once, when the
\* node is dequeued, and a node is enqueued at most once).
SimulateDelay(ts, delayed_task_id, delay_minutes) ==
    LET G == BuildGraph(ts)
    IN IF ~InSeq(delayed_task_id, G.nodes) THEN {}
       ELSE Bfs(G, delayed_task_id, <<<<delayed_task_id, delay_minutes>>>>,
                {delayed_task_id}, {})

(***************************************************************************)
(* SpecGraph: every task list within the bounds, then analyzer calls.      *)
(***************************************************************************)
DependencyChoices(n) ==
    {deps \in [1..n -> SUBSET GraphTaskIds] :
        SumSeq([i \in 1..n |-> Cardinality(deps[i])]) <= MaxEdges}

\* the chain A -> B -> C with durations 10/20/30
ChainExample ==
    <<AnalyzerTask(1, 10, {}), AnalyzerTask(2, 20, {1}), AnalyzerTask(3, 30, {2})>>

InitGraph ==
    /\ IndexUnused
    /\ DbUnused
    /\ \/ \E n \in 0..MaxGraphTasks :
            \E deps \in DependencyChoices(n) :
              \E dur \in [1..n -> Durations] :
                analyzerTasks = [i \in 1..n |-> AnalyzerTask(i, dur[i], deps[i])]
       \/ analyzerTasks = ChainExample
    /\ graphCall = [op |-> "none"]
    /\ graphResult = [raised |-> NoValue, value |-> <<>>]

\* routes/gantt.py get_critical_path: a request builds its own analyzer from
\* the task list it carries and makes one call on it
GetCriticalPath ==
    /\ graphCall.op = "none"
    /\ graphCall' = [op |-> "calculate_critical_path"]
    /\ graphResult' = CalculateCriticalPath(analyzerTasks)
    /\ UNCHANGED <<analyzerTasks, indexVars, dbVars>>

\* routes/gantt.py simulate_task_delay
SimulateTaskDelay ==
    \E t \in GraphTaskIds \cup {UnknownTaskId} :
      \E d \in DelayMinutes :
        /\ graphCall.op = "none"
        /\ graphCall' = [op |-> "simulate_delay", delayed_task_id |-> t, delay_minutes |-> d]
        /\ graphResult' = [raised |-> NoValue, value |-> SimulateDelay(analyzerTasks, t, d)]
        /\ UNCHANGED <<analyzerTasks, indexVars, dbVars>>

NextGraph == GetCriticalPath \/ SimulateTaskDelay

SpecGraph == InitGraph /\ [][NextGraph]_vars

(***************************************************************************)
(* The dependency relation of a task list, stated without the analyzer's   *)
(* data structures: what the claims about the analyzer are measured by.    *)
(***************************************************************************)
\* dependency -> dependent, for every declared dependency inside the task list
DeclaredEdges(ts) ==
    {e \in TasksById(ts) \X TasksById(ts) :
        \E i \in 1..Len(ts) : ts[i].id = e[2] /\ InSeq(e[1], ts[i].dependencies)}

RECURSIVE ReachClosure(_, _)
ReachClosure(E, S) ==
    LET S2 == S \cup {e[2] : e \in {f \in E : f[1] \in S}}
    IN IF S2 = S THEN S ELSE ReachClosure(E, S2)

\* the tasks reachable from t over one or more successor edges
Descendants(ts, t) ==
    LET E == DeclaredEdges(ts)
    IN ReachClosure(E, {e[2] : e \in {f \in E : f[1] = t}})

HasCycle(ts) == \E t \in TasksById(ts) : t \in Descendants(ts, t)

\* the simple paths of the dependency graph, as sequences of task ids
GraphPaths(ts) ==
    LET ids == TasksById(ts)
        E == DeclaredEdges(ts)
    IN {p \in UNION {[1..k -> ids] : k \in 1..Cardinality(ids)} :
          /\ \A i, j \in 1..Len(p) : i # j => p[i] # p[j]
          /\ \A i \in 1..(Len(p) - 1) : <<p[i], p[i + 1]>> \in E}

PathDuration(ts, p) == SumSeq([i \in 1..Len(p) |-> DurationById(ts, p[i])])

IsSourceToSink(ts, p) ==
    LET E == DeclaredEdges(ts)
    IN /\ ~\E e \in E : e[2] = p[1]
       /\ ~\E e \in E : e[1] = p[Len(p)]

CriticalPathCalled == graphCall.op = "calculate_critical_path"
SimulateDelayCalled == graphCall.op = "simulate_delay"

\* some task of the list names its own id among its dependencies
SelfDependent(ts) == \E i \in 1..Len(ts) : InSeq(ts[i].id, ts[i].dependencies)

\* C26: a call on an analyzer built from a task list in which a task depends
\* on itself ends with an error raised to the caller.
C26_SelfDependencyIsReported ==
    (graphCall.op # "none" /\ SelfDependent(analyzerTasks))
    => graphResult.raised # NoValue

\* what the analyzer does with such a list: it keeps the self-loop, answers
\* the critical path with the empty list and raises nothing
C26_SelfDependencyGivesEmptyPath ==
    (CriticalPathCalled /\ SelfDependent(analyzerTasks))
    => /\ graphResult = [raised |-> NoValue, value |-> <<>>]
       /\ \E e \in SeqToSet(BuildGraph(analyzerTasks).edges) : e[1] = e[2]

\* C3: for an acyclic task set calculate_critical_path returns a
\* source-to-sink path whose summed estimatedDuration is maximal among all
\* paths of the dependency graph.
C3_CriticalPathHasMaxDuration ==
    (CriticalPathCalled /\ analyzerTasks # <<>> /\ ~HasCycle(analyzerTasks)) =>
        /\ graphResult.raised = NoValue
        /\ graphResult.value \in GraphPaths(analyzerTasks)
        /\ IsSourceToSink(analyzerTasks, graphResult.value)
        /\ \A p \in GraphPaths(analyzerTasks) :
             PathDuration(analyzerTasks, p) <= PathDuration(analyzerTasks, graphResult.value)

\* The chain 1 -> 2 -> 3 with durations 10/20/30 yields <<1, 2, 3>>.
C3_ChainExample ==
    (CriticalPathCalled /\ analyzerTasks = ChainExample) => graphResult.value = <<1, 2, 3>>

\* C8: for a task set whose dependency graph has a cycle, and for the empty
\* task set, calculate_critical_path returns the empty sequence and does
\* not raise.
C8_CycleOrEmptyGivesEmptyPath ==
    (CriticalPathCalled /\ (analyzerTasks = <<>> \/ HasCycle(analyzerTasks))) =>
        graphResult = [raised |-> NoValue, value |-> <<>>]

\* a cycle beside a task that is not on it: the sort yields a task before
\* it finds the cycle
C8_Witness ==
    /\ CriticalPathCalled
    /\ HasCycle(analyzerTasks)
    /\ \E t \in TasksById(analyzerTasks) : t \notin Descendants(analyzerTasks, t)
    /\ graphResult = [raised |-> NoValue, value |-> <<>>]

\* C9: simulate_delay(t, d) returns exactly {x |-> d : x # t, x reachable
\* from t over successor edges}, in cyclic graphs too, and the empty mapping
\* when t is not in the graph.
C9_SimulateDelayIsFlatReachability ==
    SimulateDelayCalled =>
        LET t == graphCall.delayed_task_id
            d == graphCall.delay_minutes
        IN /\ graphResult.raised = NoValue
           /\ graphResult.value =
                IF t \in TasksById(analyzerTasks)
                THEN {<<x, d>> : x \in Descendants(analyzerTasks, t) \ {t}}
                ELSE {}

\* the origin lies on a cycle and some task two hops away is delayed
C9_Witness ==
    /\ SimulateDelayCalled
    /\ graphCall.delayed_task_id \in Descendants(analyzerTasks, graphCall.delayed_task_id)
    /\ \E x, y \in TasksById(analyzerTasks) :
         /\ x # graphCall.delayed_task_id /\ y # graphCall.delayed_task_id /\ x # y
         /\ <<graphCall.delayed_task_id, x>> \in DeclaredEdges(analyzerTasks)
         /\ <<x, y>> \in DeclaredEdges(analyzerTasks)
         /\ <<graphCall.delayed_task_id, y>> \notin DeclaredEdges(analyzerTasks)
         /\ <<y, graphCall.delay_minutes>> \in graphResult.value

(***************************************************************************)
(* The document store: routes/users.py, routes/tasks.py, the services and  *)
(* api_service/main.py, over the collections users, tasks and              *)
(* performance_history of the database "aeip_db".                          *)
(*                                                                         *)
(* Scores are fixed-point numbers in thousandths: One stands for 1.0.      *)
(* Timestamps are hours. An absent optional string is NoValue, an absent   *)
(* optional number is NoNumber.                                            *)
(*                                                                         *)
(* routes/tasks.py carries unresolved merge markers. create_task is read   *)
(* as its text runs once the marker lines are dropped: the score loop of   *)
(* the first side, then the advisory call of the second side, then the     *)
(* common tail. complete_task ends in a return on either side, so each     *)
(* side is an action of its own.                                           *)
(***************************************************************************)
MaxUsers == 2
MaxTasks == 1
MaxTicks == 1
MaxCompletions == 2

One == 1000
NoNumber == -1

\* the request bodies of register_user
UserCreates ==
    {[email |-> "a@x", role |-> "ASSIGNEE", skills |-> {"python"}],
     [email |-> "b@x", role |-> "ASSIGNEE", skills |-> {"java"}],
     [email |-> "c@x", role |-> "ADMIN", skills |-> {}]}

\* the request bodies of update_user: a score inside the unit interval and
\* one outside it
UserUpdates == [reliabilityScore : {900, 1500}]

RequiredSkillInputs == {{}, {"python"}}

UserId(i) == "USER-" \o ToString(i)
TaskId(i) == "TASK-" \o ToString(i)

RegisteredIds == {users[i].id : i \in 1..Len(users)}
\* an id no registered user has
UnregisteredIds == {"USER-0"}
StoredTaskIds == {tasks[i].id : i \in 1..Len(tasks)}
UnknownTaskIds == {"TASK-0"}

\* collection.find_one({"id": id}): the position of the first match, 0 for None
FindOne(coll, id) ==
    IF \E i \in 1..Len(coll) : coll[i].id = id
    THEN Min({i \in 1..Len(coll) : coll[i].id = id})
    ELSE 0

\* {"$set": fields} applied to one document
SetFields(doc, fields) ==
    [k \in DOMAIN doc \cup DOMAIN fields |-> IF k \in DOMAIN fields THEN fields[k] ELSE doc[k]]

\* collection.update_one({"id": id}, {"$set": fields}): the first match changes
UpdateOne(coll, id, fields) ==
    [i \in 1..Len(coll) |-> IF i = FindOne(coll, id) THEN SetFields(coll[i], fields) ELSE coll[i]]

\* User(...) of register_user
NewUser(id, user_data) ==
    [id |-> id,
     email |-> user_data.email,
     role |-> user_data.role,
     deptId |-> "UNASSIGNED",
     reliabilityScore |-> One \div 2,
     skills |-> IF user_data.skills # {} THEN user_data.skills ELSE {"General"}]

\* POST /api/users/register
RegisterUser ==
    /\ dbCall = DbIdle
    /\ Len(users) < MaxUsers
    /\ \E user_data \in UserCreates :
        IF \E i \in 1..Len(users) : users[i].email = user_data.email
        THEN UNCHANGED users    \* 400
        ELSE users' = Append(users, NewUser(UserId(Len(users) + 1), user_data))
    /\ UNCHANGED <<dbCall, tasks, performance_history, now, completions, graphVars, indexVars>>

\* update_data of update_user: the fields of the body that are not None
UserUpdateData(user_update) == [reliabilityScore |-> user_update.reliabilityScore]

\* PUT /api/users/{user_id}
UpdateUser ==
    /\ dbCall = DbIdle
    /\ \E user_id \in RegisteredIds \cup UnregisteredIds,
          user_update \in UserUpdates :
        IF FindOne(users, user_id) = 0
        THEN UNCHANGED users    \* 404
        ELSE users' = UpdateOne(users, user_id, UserUpdateData(user_update))
    /\ UNCHANGED <<dbCall, tasks, performance_history, now, completions, graphVars, indexVars>>

\* db.users.find({"role": {"$ne": "ADMIN"}}).to_list(1000)
CandidateUsers(us) == SelectSeq(us, LAMBDA u : u.role # "ADMIN")

\* db.tasks.count_documents({"assigneeId": id, "status": {"$in": [...]}})
ActiveTasks(ts, user_id) ==
    Cardinality({i \in 1..Len(ts) :
        ts[i].assigneeId = user_id /\ ts[i].status \in {"CREATED", "IN_PROGRESS"}})

MaxOf(a, b) == IF a >= b THEN a ELSE b

\* the score with the role preference left out
ScoreWithoutRoleBonus(user, required, deptId, active_tasks) ==
    LET n == Cardinality(required)
        intersection == user.skills \cap required
        context_bonus == IF user.deptId = deptId THEN One \div 10 ELSE 0
    IN  4 * One * Cardinality(intersection)
        + 4 * user.reliabilityScore * n
        + 2 * n * MaxOf(0, One - (One * active_tasks) \div 5)
        + 10 * n * context_bonus

\* The weighted score of one candidate, as the numerator of a fraction whose
\* denominator, 10 * One * |required|, is the same for every candidate of a
\* call: skill 0.4, reliability 0.4, workload 0.2, role bonus 0.1, context
\* bonus 0.1.
Score(user, required, deptId, active_tasks) ==
    LET n == Cardinality(required)
        intersection == user.skills \cap required
        role_bonus == IF user.role = "ASSIGNEE" THEN One \div 10 ELSE 0
        context_bonus == IF user.deptId = deptId THEN One \div 10 ELSE 0
    IN  4 * One * Cardinality(intersection)
        + 4 * user.reliabilityScore * n
        + 2 * n * MaxOf(0, One - (One * active_tasks) \div 5)
        + 10 * n * role_bonus
        + 10 * n * context_bonus

\* best_match = None, best_score = -1.0
NoBest(required) == [match |-> NoValue, score |-> 0 - 10 * One * Cardinality(required)]

\* the loop with `score >= best_score`: the last of the best wins
RECURSIVE ScoreLoopLastWins(_, _, _, _, _, _)
ScoreLoopLastWins(us, i, required, deptId, ts, best) ==
    IF i > Len(us) THEN best
    ELSE IF us[i].skills \cap required = {}
         THEN ScoreLoopLastWins(us, i + 1, required, deptId, ts, best)
         ELSE LET score == ScoreWithoutRoleBonus(us[i], required, deptId,
                                                 ActiveTasks(ts, us[i].id))
                           + 10 * Cardinality(required)
                               * (IF us[i].role = "ASSIGNEE" THEN One \div 10 ELSE 0)
              IN  IF score >= best.score
                  THEN ScoreLoopLastWins(us, i + 1, required, deptId, ts,
                                         [match |-> us[i].id, score |-> score])
                  ELSE ScoreLoopLastWins(us, i + 1, required, deptId, ts, best)

\* the loop over the candidates, from candidate i on
RECURSIVE ScoreLoop(_, _, _, _, _, _)
ScoreLoop(us, i, required, deptId, ts, best) ==
    IF i > Len(us) THEN best
    ELSE IF us[i].skills \cap required = {}
         THEN ScoreLoop(us, i + 1, required, deptId, ts, best)
         ELSE LET score == Score(us[i], required, deptId, ActiveTasks(ts, us[i].id))
              IN  IF score > best.score
                  THEN ScoreLoop(us, i + 1, required, deptId, ts,
                                 [match |-> us[i].id, score |-> score])
                  ELSE ScoreLoop(us, i + 1, required, deptId, ts, best)

BestMatch(us, required, deptId, ts) ==
    ScoreLoop(us, 1, required, deptId, ts, NoBest(required)).match

\* What autonomous_assignment_inference hands back: None when the call or
\* the parsing raised, else the parsed object, whose selected_user_id is
\* whatever the collaborator wrote.
NoAssignment == [parsed |-> FALSE, selected_user_id |-> NoValue]
AssignmentAdvisories ==
    {NoAssignment}
    \cup [parsed : {TRUE}, selected_user_id : {NoValue} \cup RegisteredIds \cup UnregisteredIds]

\* if ai_assignment and ai_assignment.get("selected_user_id")
AdvisedAssignee(ai_assignment, assignee_id) ==
    IF ai_assignment.parsed /\ ai_assignment.selected_user_id # NoValue
    THEN ai_assignment.selected_user_id
    ELSE assignee_id

\* the assignee create_task settles on, NoValue if none
ChooseAssignee(task_data, ai_assignment, us, ts) ==
    IF task_data.assigneeId = NoValue /\ task_data.requiredSkills # {}
    THEN LET candidates == CandidateUsers(us)
         IN  IF candidates # <<>>
             THEN AdvisedAssignee(ai_assignment,
                      BestMatch(candidates, task_data.requiredSkills, task_data.deptId, ts))
             ELSE NoValue
    ELSE task_data.assigneeId

\* Task(...) of create_task
NewTask(id, task_data, assignee_id, created) ==
    [id |-> id,
     status |-> "CREATED",
     deadline |-> task_data.deadline,
     assigneeId |-> assignee_id,
     deptId |-> task_data.deptId,
     requiredSkills |-> task_data.requiredSkills,
     lastAction |-> "NONE",
     createdAt |-> created,
     actualStartDate |-> NoNumber,
     completedAt |-> NoNumber,
     completionQuality |-> NoNumber,
     wasOnTime |-> NoNumber,
     actualHours |-> NoNumber]

\* the request bodies of create_task; the deadline is two days ahead, and
\* is missed once the clock has moved on
TaskCreates ==
    [assigneeId : {NoValue} \cup RegisteredIds,
     requiredSkills : RequiredSkillInputs,
     deptId : {"D1"},
     deadline : {now + 48}]

\* POST /api/tasks/
CreateTask ==
    /\ dbCall = DbIdle
    /\ Len(tasks) < MaxTasks
    /\ \E task_data \in TaskCreates, ai_assignment \in AssignmentAdvisories :
        LET consulted == /\ task_data.assigneeId = NoValue
                         /\ task_data.requiredSkills # {}
                         /\ CandidateUsers(users) # <<>>
            assignee_id == ChooseAssignee(task_data, ai_assignment, users, tasks)
            call == [op |-> "create_task",
                     raised |-> NoValue,
                     task_data |-> task_data,
                     consulted |-> consulted,
                     best_match |-> IF consulted
                                    THEN BestMatch(CandidateUsers(users), task_data.requiredSkills,
                                                   task_data.deptId, tasks)
                                    ELSE NoValue,
                     ai_assignment |-> ai_assignment,
                     assigneeId |-> assignee_id,
                     count_before |-> Len(tasks)]
        IN  \* the advisory is a parameter of the step only where it is called
            /\ consulted \/ ai_assignment = NoAssignment
            /\ IF assignee_id = NoValue
               THEN /\ dbCall' = [call EXCEPT !.raised = "HTTP400"]
                    /\ UNCHANGED tasks
               ELSE /\ tasks' = Append(tasks,
                          NewTask(TaskId(Len(tasks) + 1), task_data, assignee_id, now))
                    /\ dbCall' = call
    /\ UNCHANGED <<users, performance_history, now, completions, graphVars, indexVars>>

\* PUT /api/tasks/{task_id} with actualStartDate in the body: the client
\* reports the start of the work as the current time
UpdateTask ==
    /\ dbCall = DbIdle
    /\ \E task_id \in StoredTaskIds \cup UnknownTaskIds :
        IF FindOne(tasks, task_id) = 0
        THEN UNCHANGED tasks    \* 404
        ELSE tasks' = UpdateOne(tasks, task_id, [actualStartDate |-> now])
    /\ UNCHANGED <<dbCall, users, performance_history, now, completions, graphVars, indexVars>>

(***************************************************************************)
(* services/performance_service.py                                         *)
(***************************************************************************)
\* math.exp(-days_ago / 30) for a completion hours_ago back, in thousandths;
\* the clock moves in whole periods, so the exponent is a whole number
DecayWeight(hours_ago) ==
    LET periods == hours_ago \div DecayPeriodHours
    IN  CASE periods = 0 -> 1000
          [] periods = 1 -> 368
          [] periods = 2 -> 135
          [] periods = 3 -> 50
          [] OTHER -> 18

\* timedelta(days=90)
WindowHours == 90 * 24

Clamp(x) == MinOf(MaxOf(x, 0), One)

\* calculate_user_performance with 0.0 in place of the default 0.5
CalculateUserPerformanceDefaultZero(history_all, ts, user_id, t) ==
    LET history == SelectSeq(history_all,
                       LAMBDA r : r.userId = user_id /\ r.completedAt >= t - WindowHours)
        total_assigned == Cardinality({i \in 1..Len(ts) :
                              ts[i].assigneeId = user_id /\ ts[i].createdAt >= t - WindowHours})
        weight == [i \in 1..Len(history) |-> DecayWeight(t - history[i].completedAt)]
        total_weight == SumSeq(weight)
        weighted_on_time == SumSeq([i \in 1..Len(history) |-> history[i].wasOnTime * weight[i]])
        weighted_quality == SumSeq([i \in 1..Len(history) |-> history[i].quality * weight[i]])
    IN  IF history = <<>> \/ total_assigned = 0 THEN 0
        ELSE Clamp((4 * ((One * weighted_on_time) \div total_weight)
                    + 4 * (weighted_quality \div total_weight)
                    + 2 * ((One * Len(history)) \div total_assigned)) \div 10)

\* calculate_user_performance, read at time t; divisions round down to the
\* thousandth
CalculateUserPerformance(history_all, ts, user_id, t) ==
    LET history == SelectSeq(history_all,
                       LAMBDA r : r.userId = user_id /\ r.completedAt >= t - WindowHours)
        total_assigned == Cardinality({i \in 1..Len(ts) :
                              ts[i].assigneeId = user_id /\ ts[i].createdAt >= t - WindowHours})
        weight == [i \in 1..Len(history) |-> DecayWeight(t - history[i].completedAt)]
        total_weight == SumSeq(weight)
        weighted_on_time == SumSeq([i \in 1..Len(history) |-> history[i].wasOnTime * weight[i]])
        weighted_quality == SumSeq([i \in 1..Len(history) |-> history[i].quality * weight[i]])
        on_time_rate == IF total_weight > 0
                        THEN (One * weighted_on_time) \div total_weight ELSE One \div 2
        avg_quality == IF total_weight > 0
                       THEN weighted_quality \div total_weight ELSE One \div 2
        completion_rate == (One * Len(history)) \div total_assigned
    IN  IF history = <<>> THEN One \div 2
        ELSE IF total_assigned = 0 THEN One \div 2
        ELSE Clamp((4 * on_time_rate + 4 * avg_quality + 2 * completion_rate) \div 10)

\* update_user_performance as a running average of the stored and the new score
UpdateUserPerformanceRunningAverage(us, history, ts, user_id, t) ==
    UpdateOne(us, user_id,
        [reliabilityScore |->
            (us[FindOne(us, user_id)].reliabilityScore
             + CalculateUserPerformance(history, ts, user_id, t)) \div 2])

\* update_user_performance
UpdateUserPerformance(us, history, ts, user_id, t) ==
    UpdateOne(us, user_id,
        [reliabilityScore |-> CalculateUserPerformance(history, ts, user_id, t)])

\* the request bodies of complete_task: quality and hoursSpent are optional
TaskCompletes ==
    {[quality |-> NoNumber, hoursSpent |-> NoNumber],
     [quality |-> 600, hoursSpent |-> 2 * One]}

\* record_task_completion: the three collections after it
RecordTaskCompletion(task_id, completion_data) ==
    LET task == tasks[FindOne(tasks, task_id)]
        completed_at == now
        was_on_time == IF completed_at <= task.deadline THEN 1 ELSE 0
        hours_spent == IF completion_data.hoursSpent = NoNumber
                       THEN MaxOf(One \div 10, One * (now - task.createdAt))
                       ELSE completion_data.hoursSpent
        quality == IF completion_data.quality = NoNumber THEN One ELSE completion_data.quality
        performance_record == [userId |-> task.assigneeId,
                               taskId |-> task_id,
                               completedAt |-> completed_at,
                               wasOnTime |-> was_on_time,
                               quality |-> quality]
        history == Append(performance_history, performance_record)
        ts == UpdateOne(tasks, task_id,
                  [status |-> "COMPLETED",
                   completedAt |-> completed_at,
                   completionQuality |-> quality,
                   wasOnTime |-> was_on_time,
                   actualHours |-> hours_spent])
    IN  [performance_history |-> history,
         tasks |-> ts,
         users |-> UpdateUserPerformance(users, history, ts, task.assigneeId, now)]

\* POST /api/tasks/{task_id}/complete, first side of the merge
CompleteTaskHead ==
    /\ dbCall = DbIdle
    /\ completions < MaxCompletions
    /\ completions' = completions + 1
    /\ \E task_id \in StoredTaskIds \cup UnknownTaskIds, completion_data \in TaskCompletes :
        IF FindOne(tasks, task_id) = 0
        THEN /\ dbCall' = [op |-> "complete_task", side |-> "HEAD",
                           task_id |-> task_id, raised |-> "HTTP404"]
             /\ UNCHANGED <<users, tasks, performance_history>>
        ELSE LET after == RecordTaskCompletion(task_id, completion_data)
             IN  /\ users' = after.users
                 /\ tasks' = after.tasks
                 /\ performance_history' = after.performance_history
                 /\ dbCall' = [op |-> "complete_task", side |-> "HEAD",
                               task_id |-> task_id, raised |-> NoValue,
                               assigneeId |-> tasks[FindOne(tasks, task_id)].assigneeId,
                               history_before |-> Len(performance_history)]
    /\ UNCHANGED <<now, graphVars, indexVars>>

(***************************************************************************)
(* services/agentic_completion.py                                          *)
(***************************************************************************)
CompletionKeys ==
    {"inferred_quality_score", "quality_label", "confidence_score",
     "implied_effort_hours", "narrative"}

\* the dict of the except branch of autonomous_completion_inference
FallbackResult(wall_clock_hours) ==
    [keys |-> CompletionKeys,
     inferred_quality_score |-> 800,
     quality_label |-> "Uncertain",
     confidence_score |-> 100,
     implied_effort_hours |-> wall_clock_hours * (One \div 2),
     narrative |-> "AI reasoning failed, using fallback estimates."]

\* a JSON object as the collaborator wrote it: keys are the fields it has
AdvisedResult(keys, quality, confidence) ==
    [keys |-> keys,
     inferred_quality_score |-> quality,
     quality_label |-> "Strong",
     confidence_score |-> confidence,
     implied_effort_hours |-> 2 * One,
     narrative |-> "advised"]

\* What the collaborator does in one call: generate_content raises (an
\* error or a transport timeout), the text is no JSON, or the text parses
\* to an object: a complete one, one whose numbers are off the scale, or
\* one that lacks a field.
CompletionAdvisories ==
    {[kind |-> "raises", result |-> FallbackResult(0)],
     [kind |-> "unparseable", result |-> FallbackResult(0)],
     [kind |-> "object", result |-> AdvisedResult(CompletionKeys, 900, 800)],
     [kind |-> "object", result |-> AdvisedResult(CompletionKeys, 5 * One, One)]}
    \cup {[kind |-> "object", result |-> AdvisedResult(CompletionKeys \ {k}, 900, 800)] :
            k \in {"inferred_quality_score", "confidence_score", "narrative"}}

\* autonomous_completion_inference: json.loads(text) is returned as it is
AutonomousCompletionInference(advisory, wall_clock_hours) ==
    IF advisory.kind = "object" THEN advisory.result ELSE FallbackResult(wall_clock_hours)

\* New = Old * (1 - alpha) + Observation * alpha, alpha = 0.1 * confidence,
\* rounded down to the thousandth
NewReliability(old, quality, confidence) ==
    (old * (10 * One - confidence) + quality * confidence) \div (10 * One)

\* the numbered sections of process_task_completion, in the order of the text:
\* 1 fetch context, 2 derive signals, 4 inference, 5 commit results,
\* 6 learning, 7 memory record
CompletionSections == <<"context", "signals", "inference", "commit", "learning", "memory">>

\* process_task_completion: the collections it leaves, the exception that
\* ended it (NoValue if it returned), the sections it completed, and what it
\* had computed by then
ProcessTaskCompletion(task_id, advisory) ==
    LET task == tasks[FindOne(tasks, task_id)]
        \* n sections were completed when the run ended
        stop(raised, ts, us, consulted, n) ==
            [raised |-> raised, tasks |-> ts, users |-> us, consulted |-> consulted,
             reached |-> SubSeq(CompletionSections, 1, n)]
    IN  IF FindOne(users, task.assigneeId) = 0
        THEN stop("ValueError", tasks, users, FALSE, 0)
        ELSE IF task.actualStartDate = NoNumber
        \* start_time is the datetime createdAt: int - datetime
        THEN stop("TypeError", tasks, users, FALSE, 1)
        ELSE
        LET user == users[FindOne(users, task.assigneeId)]
            wall_clock_hours == now - task.actualStartDate
            overdue == now > task.deadline
            ai_result == AutonomousCompletionInference(advisory, wall_clock_hours)
            ts == UpdateOne(tasks, task_id,
                      [status |-> "COMPLETED",
                       completedAt |-> now,
                       completionQuality |-> ai_result.inferred_quality_score,
                       actualHours |-> ai_result.implied_effort_hours,
                       wasOnTime |-> IF overdue THEN 0 ELSE 1,
                       lastAction |-> "AUTO_COMPLETE"])
            us == UpdateOne(users, user.id,
                      [reliabilityScore |->
                           NewReliability(user.reliabilityScore,
                                          ai_result.inferred_quality_score,
                                          ai_result.confidence_score)])
        IN  IF ~({"inferred_quality_score", "implied_effort_hours", "quality_label"}
                    \subseteq ai_result.keys)
            THEN stop("KeyError", tasks, users, TRUE, 3)
            ELSE IF "confidence_score" \notin ai_result.keys
            THEN stop("KeyError", ts, users, TRUE, 4)
            ELSE IF "narrative" \notin ai_result.keys
            THEN stop("KeyError", ts, us, TRUE, 5)
            ELSE stop(NoValue, ts, us, TRUE, 6)

\* memory_text of process_task_completion, section 7: the task, the worker,
\* the quality label and the narrative
MemoryText(task_id, user_id, ai_result) ==
    "Task " \o task_id \o " completed by " \o user_id \o ". Result: "
        \o ai_result.quality_label \o ". " \o ai_result.narrative

\* the except branch of complete_task, were it to log the failure only
ManualCompleteFallbackLogOnly(ts, task_id) ==
    UpdateOne(ts, task_id, [lastAction |-> "MANUAL_COMPLETE_FALLBACK"])

\* the except branch of complete_task
ManualCompleteFallback(ts, task_id) ==
    UpdateOne(ts, task_id,
        [status |-> "COMPLETED",
         completedAt |-> now,
         lastAction |-> "MANUAL_COMPLETE_FALLBACK"])

\* POST /api/tasks/{task_id}/complete, second side of the merge
CompleteTaskIncoming ==
    /\ dbCall = DbIdle
    /\ completions < MaxCompletions
    /\ completions' = completions + 1
    /\ \E task_id \in StoredTaskIds \cup UnknownTaskIds, advisory \in CompletionAdvisories :
        IF FindOne(tasks, task_id) = 0
        THEN /\ advisory.kind = "raises"
             /\ dbCall' = [op |-> "complete_task", side |-> "incoming",
                           task_id |-> task_id, raised |-> "HTTP404"]
             /\ UNCHANGED <<users, tasks>>
        ELSE LET done == ProcessTaskCompletion(task_id, advisory)
                 task == tasks[FindOne(tasks, task_id)]
             IN  \* the advisory is a parameter of the step only where it is called
                 /\ done.consulted \/ advisory.kind = "raises"
                 /\ users' = done.users
                 /\ tasks' = IF done.raised = NoValue
                             THEN done.tasks
                             ELSE ManualCompleteFallback(done.tasks, task_id)
                 /\ dbCall' = [op |-> "complete_task", side |-> "incoming",
                               task_id |-> task_id, raised |-> NoValue,
                               caught |-> done.raised,
                               consulted |-> done.consulted,
                               reached |-> done.reached,
                               history_before |-> Len(performance_history),
                               new_memory_text |->
                                   IF done.raised = NoValue
                                   THEN MemoryText(task_id, task.assigneeId,
                                            AutonomousCompletionInference(advisory,
                                                now - task.actualStartDate))
                                   ELSE NoValue,
                               advisory |-> advisory,
                               assigneeId |-> task.assigneeId,
                               old_reliability |->
                                   IF done.consulted
                                   THEN users[FindOne(users, task.assigneeId)].reliabilityScore
                                   ELSE NoNumber,
                               wall_clock_hours |->
                                   IF done.consulted THEN now - task.actualStartDate ELSE NoNumber]
    /\ UNCHANGED <<performance_history, now, graphVars, indexVars>>

(***************************************************************************)
(* api_service/main.py reads and writes the same collections               *)
(***************************************************************************)
\* GET /api/performance/{user_id}. The tasks of this store carry a datetime
\* updatedAt (models.Task, update_task, record_task_completion), so the
\* comparison updatedAt <= deadline of a completed task raises TypeError
\* before anything is written.
GetPerformanceMetrics ==
    /\ dbCall = DbIdle
    /\ \E user_id \in RegisteredIds \cup UnregisteredIds :
        LET all_tasks == Cardinality({i \in 1..Len(tasks) : tasks[i].assigneeId = user_id})
            completed == Cardinality({i \in 1..Len(tasks) :
                             tasks[i].assigneeId = user_id /\ tasks[i].status = "COMPLETED"})
            on_time == 0
            reliability == IF all_tasks > 0
                           THEN (7 * ((One * completed) \div all_tasks)
                                 + 3 * ((One * on_time) \div MaxOf(completed, 1))) \div 10
                           ELSE One \div 2
        IN  IF completed > 0
            THEN UNCHANGED users    \* TypeError
            ELSE users' = UpdateOne(users, user_id, [reliabilityScore |-> reliability])
    /\ UNCHANGED <<dbCall, tasks, performance_history, now, completions, graphVars, indexVars>>

\* thirty days pass between two requests
Tick ==
    /\ dbCall = DbIdle
    /\ now < (MaxTicks + 1) * DecayPeriodHours
    /\ now' = now + DecayPeriodHours
    /\ UNCHANGED <<users, tasks, performance_history, dbCall, completions, graphVars, indexVars>>

\* the response is sent
DbRespond ==
    /\ dbCall # DbIdle
    /\ dbCall' = DbIdle
    /\ UNCHANGED <<users, tasks, performance_history, now, completions, graphVars, indexVars>>

Init == DbUnused /\ IndexUnused /\ GraphUnused

Next ==
    \/ RegisterUser
    \/ UpdateUser
    \/ CreateTask
    \/ UpdateTask
    \/ CompleteTaskHead
    \/ CompleteTaskIncoming
    \/ GetPerformanceMetrics
    \/ Tick
    \/ DbRespond

Spec == Init /\ [][Next]_vars

(***************************************************************************)
(* The claims about the document store, stated on the collections and on   *)
(* the request just answered.                                              *)
(***************************************************************************)
CreateTaskAnswered == dbCall # DbIdle /\ dbCall.op = "create_task"

\* the users a task with these required skills may be assigned to
EligiblePool(required) ==
    {users[i].id : i \in {j \in 1..Len(users) :
        users[j].role # "ADMIN" /\ users[j].skills \cap required # {}}}

\* C1: after any sequence of registrations, completions on either path,
\* metrics reads and user updates, every stored reliabilityScore lies in
\* the unit interval.
C1_ReliabilityInUnitInterval ==
    \A i \in 1..Len(users) :
        users[i].reliabilityScore >= 0 /\ users[i].reliabilityScore <= One

\* C2: a task that create_task assigned on its own, from non-empty required
\* skills, went to a registered user who has at least one of those skills.
C2_AutoAssigneeSharesASkill ==
    (/\ CreateTaskAnswered
     /\ dbCall.raised = NoValue
     /\ dbCall.task_data.assigneeId = NoValue)
    => \E i \in 1..Len(users) :
          /\ users[i].id = dbCall.assigneeId
          /\ users[i].skills \cap dbCall.task_data.requiredSkills # {}

\* C7: when the assignment advisory hands back nothing, or proposes an id
\* outside the eligible pool, the assignee is the winner of the score loop;
\* and a proposed id that became the assignee is in the eligible pool.
C7_IneligibleAdviceYieldsToScore ==
    (CreateTaskAnswered /\ dbCall.consulted)
    => LET advice == dbCall.ai_assignment
           proposes == advice.parsed /\ advice.selected_user_id # NoValue
           eligible == EligiblePool(dbCall.task_data.requiredSkills)
       IN  /\ (~proposes \/ advice.selected_user_id \notin eligible)
                  => dbCall.assigneeId = dbCall.best_match
           /\ (proposes /\ dbCall.assigneeId = advice.selected_user_id)
                  => advice.selected_user_id \in eligible

\* an automatic assignment over a pool in which no candidate has one of the
\* required skills
NoEligibleCandidate ==
    /\ CreateTaskAnswered
    /\ dbCall.task_data.assigneeId = NoValue
    /\ dbCall.task_data.requiredSkills # {}
    /\ EligiblePool(dbCall.task_data.requiredSkills) = {}

\* C16: when no candidate has a required skill, create_task answers with
\* its 'no suitable assignee' response, chooses no assignee and stores no
\* task.
C16_NoEligibleCandidateIsReported ==
    NoEligibleCandidate
    => /\ dbCall.raised = "HTTP400"
       /\ dbCall.assigneeId = NoValue
       /\ Len(tasks) = dbCall.count_before

\* the score loop itself selects nobody then, and where the advisory
\* proposes nobody the request is answered with the 400 response
C16_ScoreLoopSelectsNobody ==
    NoEligibleCandidate
    => /\ dbCall.best_match = NoValue
       /\ (~dbCall.ai_assignment.parsed \/ dbCall.ai_assignment.selected_user_id = NoValue)
              => (dbCall.raised = "HTTP400" /\ Len(tasks) = dbCall.count_before)

IncomingCompletionAnswered ==
    /\ dbCall # DbIdle
    /\ dbCall.op = "complete_task"
    /\ dbCall.side = "incoming"
    /\ dbCall.raised = NoValue

\* the advisory raised, wrote no JSON, or wrote an object that lacks a field
AdvisoryFailed(advisory) ==
    advisory.kind \in {"raises", "unparseable"} \/ advisory.result.keys # CompletionKeys

\* C10: when the completion advisory raises, writes no JSON or writes an
\* object lacking a field, the completion still commits the fallback
\* values: quality 0.8, effort half the wall-clock hours, and a reliability
\* moved with confidence 0.1; nothing is caught by the route's except branch.
C10_AdvisoryFailureCommitsFallback ==
    (/\ IncomingCompletionAnswered
     /\ dbCall.consulted
     /\ AdvisoryFailed(dbCall.advisory))
    => LET task == tasks[FindOne(tasks, dbCall.task_id)]
           user == users[FindOne(users, dbCall.assigneeId)]
       IN  /\ dbCall.caught = NoValue
           /\ task.status = "COMPLETED"
           /\ task.completionQuality = 800
           /\ 2 * task.actualHours = One * dbCall.wall_clock_hours
           /\ user.reliabilityScore = (99 * dbCall.old_reliability + 800) \div 100

\* the part of C10 the code keeps: an advisory that raised or wrote no JSON
C10_RaisedOrUnparseableCommitsFallback ==
    (/\ IncomingCompletionAnswered
     /\ dbCall.consulted
     /\ dbCall.advisory.kind \in {"raises", "unparseable"})
    => LET task == tasks[FindOne(tasks, dbCall.task_id)]
           user == users[FindOne(users, dbCall.assigneeId)]
       IN  /\ dbCall.caught = NoValue
           /\ task.status = "COMPLETED"
           /\ task.completionQuality = 800
           /\ 2 * task.actualHours = One * dbCall.wall_clock_hours
           /\ user.reliabilityScore = (99 * dbCall.old_reliability + 800) \div 100

\* C11: a process_task_completion run for an existing task with an existing
\* assignee completes its sections in the order of the text, signals, then
\* inference, then commit, and returns: the task carries a quality estimate
\* and an effort-hours estimate, and nothing was caught by the route.
C11_CompletionRunsToCommitted ==
    (/\ IncomingCompletionAnswered
     /\ FindOne(users, dbCall.assigneeId) # 0)
    => LET task == tasks[FindOne(tasks, dbCall.task_id)]
       IN  /\ dbCall.reached = CompletionSections
           /\ dbCall.caught = NoValue
           /\ task.status = "COMPLETED"
           /\ task.completionQuality # NoNumber
           /\ task.actualHours # NoNumber

\* the part of C11 the code keeps: a run that returned had completed every
\* section, in order, and left quality and effort on the task
C11_ReturnedRunIsCommitted ==
    (IncomingCompletionAnswered /\ dbCall.caught = NoValue)
    => LET task == tasks[FindOne(tasks, dbCall.task_id)]
       IN  /\ dbCall.reached = CompletionSections
           /\ task.status = "COMPLETED"
           /\ task.completionQuality # NoNumber
           /\ task.actualHours # NoNumber

(***************************************************************************)
(* SpecWait: create_task and complete_task up to and after their advisory  *)
(* call. model.generate_content(prompt) is called with no timeout and      *)
(* nothing cancels it: the handler stands at the call until the            *)
(* collaborator answers or fails. The handler's own steps are taken        *)
(* whenever they can be (weak fairness); the collaborator owes nothing.    *)
(***************************************************************************)
\* the stores the handlers are started on: one registered worker, and no
\* task or one task assigned to the worker, started or not
WaitUsers ==
    {<<[NewUser(UserId(1), user_data) EXCEPT !.reliabilityScore = r]>> :
        user_data \in {u \in UserCreates : u.role # "ADMIN"}, r \in {One \div 2, 900}}

WaitTasks ==
    {<<>>}
    \cup {<<SetFields(NewTask(TaskId(1),
                              [assigneeId |-> UserId(1), requiredSkills |-> required,
                               deptId |-> "D1", deadline |-> now + 48],
                              UserId(1), now),
                      [actualStartDate |-> start])>> :
            required \in RequiredSkillInputs, start \in {NoNumber, now}}

InitWait ==
    /\ IndexUnused
    /\ GraphUnused
    /\ now = DecayPeriodHours
    /\ performance_history = <<>>
    /\ completions = 0
    /\ dbCall = DbIdle
    /\ users \in WaitUsers
    /\ tasks \in WaitTasks

\* whether create_task reaches the advisory call for this body
AssignmentConsulted(task_data) ==
    /\ task_data.assigneeId = NoValue
    /\ task_data.requiredSkills # {}
    /\ CandidateUsers(users) # <<>>

\* whether process_task_completion reaches the advisory call for this task
CompletionConsulted(task_id) ==
    ProcessTaskCompletion(task_id, [kind |-> "raises", result |-> FallbackResult(0)]).consulted

\* create_task from line 126 on, with the assignee settled
WaitFinishCreate(task_data, ai_assignment) ==
    LET assignee_id == ChooseAssignee(task_data, ai_assignment, users, tasks)
    IN  /\ tasks' = IF assignee_id = NoValue
                    THEN tasks
                    ELSE Append(tasks, NewTask(TaskId(Len(tasks) + 1), task_data, assignee_id, now))
        /\ dbCall' = [op |-> "create_task", pc |-> "done", task_data |-> task_data,
                      raised |-> IF assignee_id = NoValue THEN "HTTP400" ELSE NoValue]
        /\ UNCHANGED users

\* complete_task from the return of the advisory call on
WaitFinishComplete(task_id, advisory) ==
    LET done == ProcessTaskCompletion(task_id, advisory)
    IN  /\ users' = done.users
        /\ tasks' = IF done.raised = NoValue
                    THEN done.tasks
                    ELSE ManualCompleteFallback(done.tasks, task_id)
        /\ dbCall' = [op |-> "complete_task", pc |-> "done", task_id |-> task_id,
                      caught |-> done.raised]

\* POST /api/tasks/ arrives and runs up to the advisory call, or to its end
\* where the advisory is not called
WaitCreateTask ==
    /\ dbCall = DbIdle
    /\ Len(tasks) < MaxTasks
    /\ \E task_data \in TaskCreates :
        IF AssignmentConsulted(task_data)
        THEN /\ dbCall' = [op |-> "create_task", pc |-> "awaiting_advisory",
                           task_data |-> task_data]
             /\ UNCHANGED <<users, tasks>>
        ELSE WaitFinishCreate(task_data, NoAssignment)
    /\ UNCHANGED <<performance_history, now, completions, graphVars, indexVars>>

\* POST /api/tasks/{task_id}/complete arrives and runs up to the advisory call
WaitCompleteTask ==
    /\ dbCall = DbIdle
    /\ completions < MaxCompletions
    /\ completions' = completions + 1
    /\ \E task_id \in StoredTaskIds :
        IF CompletionConsulted(task_id)
        THEN /\ dbCall' = [op |-> "complete_task", pc |-> "awaiting_advisory",
                           task_id |-> task_id]
             /\ UNCHANGED <<users, tasks>>
        ELSE WaitFinishComplete(task_id, [kind |-> "raises", result |-> FallbackResult(0)])
    /\ UNCHANGED <<performance_history, now, graphVars, indexVars>>

AwaitingAdvisory == dbCall # DbIdle /\ dbCall.pc = "awaiting_advisory"

\* the collaborator answers or fails: generate_content returns or raises
AssignmentAdvisoryAnswers ==
    /\ AwaitingAdvisory
    /\ dbCall.op = "create_task"
    /\ \E ai_assignment \in AssignmentAdvisories :
        dbCall' = [op |-> "create_task", pc |-> "answered",
                   task_data |-> dbCall.task_data, ai_assignment |-> ai_assignment]
    /\ UNCHANGED <<users, tasks, performance_history, now, completions, graphVars, indexVars>>

CompletionAdvisoryAnswers ==
    /\ AwaitingAdvisory
    /\ dbCall.op = "complete_task"
    /\ \E advisory \in CompletionAdvisories :
        dbCall' = [op |-> "complete_task", pc |-> "answered",
                   task_id |-> dbCall.task_id, advisory |-> advisory]
    /\ UNCHANGED <<users, tasks, performance_history, now, completions, graphVars, indexVars>>

\* the handler goes on from the call
WaitResumeCreate ==
    /\ dbCall # DbIdle
    /\ dbCall.pc = "answered"
    /\ dbCall.op = "create_task"
    /\ WaitFinishCreate(dbCall.task_data, dbCall.ai_assignment)
    /\ UNCHANGED <<performance_history, now, completions, graphVars, indexVars>>

WaitResumeComplete ==
    /\ dbCall # DbIdle
    /\ dbCall.pc = "answered"
    /\ dbCall.op = "complete_task"
    /\ WaitFinishComplete(dbCall.task_id, dbCall.advisory)
    /\ UNCHANGED <<performance_history, now, completions, graphVars, indexVars>>

WaitRespond ==
    /\ dbCall # DbIdle
    /\ dbCall.pc = "done"
    /\ dbCall' = DbIdle
    /\ UNCHANGED <<users, tasks, performance_history, now, completions, graphVars, indexVars>>

NextWait ==
    \/ WaitCreateTask
    \/ WaitCompleteTask
    \/ AssignmentAdvisoryAnswers
    \/ CompletionAdvisoryAnswers
    \/ WaitResumeCreate
    \/ WaitResumeComplete
    \/ WaitRespond

SpecWait ==
    /\ InitWait
    /\ [][NextWait]_vars
    /\ WF_vars(WaitResumeCreate)
    /\ WF_vars(WaitResumeComplete)
    /\ WF_vars(WaitRespond)

\* C12: a completion or an assignment that has reached its advisory call
\* comes to its end, whether or not the collaborator ever answers.
C12_AdvisoryWaitEnds ==
    AwaitingAdvisory ~> (dbCall # DbIdle /\ dbCall.pc = "done")

\* the part of C12 the code keeps: once the collaborator has answered or
\* failed, the handler comes to its end
C12_AnsweredCallEnds ==
    (dbCall # DbIdle /\ dbCall.pc = "answered") ~> (dbCall # DbIdle /\ dbCall.pc = "done")

(***************************************************************************)
(* SpecScore: the assignment decision of create_task (lines 37 to 124)     *)
(* applied to candidate pools: every pool within the bounds, then the      *)
(* decision for a task, and the decision once more for the same task on    *)
(* the same pool.                                                          *)
(***************************************************************************)
MaxPool == 2

\* a candidate as db.users holds it
PoolUsers(i) ==
    {[id |-> UserId(i), email |-> "a@x", role |-> role, deptId |-> dept,
      reliabilityScore |-> r, skills |-> skills] :
        role \in {"ASSIGNEE", "TEAM_LEAD"},
        dept \in {"D1", "UNASSIGNED"},
        r \in {One \div 2, 750},
        skills \in {{"python"}, {"python", "java"}, {"go"}}}

Pools == UNION {{us \in [1..n -> UNION {PoolUsers(i) : i \in 1..n}] :
                    \A i \in 1..n : us[i] \in PoolUsers(i)} : n \in 1..MaxPool}

\* the open tasks of a pool: the tasks of one candidate, none, two or more
\* than five of them open, next to a completed one
PoolTask(k, user_id, status) ==
    SetFields(NewTask(TaskId(k),
                      [assigneeId |-> user_id, requiredSkills |-> {},
                       deptId |-> "D1", deadline |-> now + 48],
                      user_id, now),
              [status |-> status])

PoolTasksOf(user_id, open) ==
    [k \in 1..(open + 1) |->
        PoolTask(k, user_id,
                 IF k = open + 1 THEN "COMPLETED"
                 ELSE IF k = 1 THEN "IN_PROGRESS" ELSE "CREATED")]

PoolTaskLists(us) ==
    {<<>>} \cup {PoolTasksOf(us[i].id, open) : i \in 1..Len(us), open \in {2, 6}}

InitScore ==
    /\ IndexUnused
    /\ GraphUnused
    /\ now = DecayPeriodHours
    /\ performance_history = <<>>
    /\ completions = 0
    /\ dbCall = DbIdle
    /\ users \in Pools
    /\ tasks \in PoolTaskLists(users)

\* the request bodies that leave the assignee to create_task
ScoreTaskCreates ==
    [assigneeId : {NoValue},
     requiredSkills : {{"python", "java"}},
     deptId : {"D1"},
     deadline : {now + 48}]

\* the advisory hands back nothing, or proposes the last candidate
ScoreAdvisories ==
    {NoAssignment, [parsed |-> TRUE, selected_user_id |-> users[Len(users)].id]}

\* one run of the decision: the winner of the score loop and the assignee
ScoreRun(task_data, ai_assignment) ==
    [ai_assignment |-> ai_assignment,
     best_match |-> BestMatch(CandidateUsers(users), task_data.requiredSkills,
                              task_data.deptId, tasks),
     assigneeId |-> ChooseAssignee(task_data, ai_assignment, users, tasks)]

AssignOnce ==
    /\ dbCall = DbIdle
    /\ \E task_data \in ScoreTaskCreates, ai_assignment \in ScoreAdvisories :
        dbCall' = [op |-> "assign", task_data |-> task_data,
                   runs |-> <<ScoreRun(task_data, ai_assignment)>>]
    /\ UNCHANGED <<users, tasks, performance_history, now, completions, graphVars, indexVars>>

AssignAgain ==
    /\ dbCall # DbIdle
    /\ dbCall.op = "assign"
    /\ Len(dbCall.runs) = 1
    /\ \E ai_assignment \in ScoreAdvisories :
        dbCall' = [dbCall EXCEPT !.runs = Append(@, ScoreRun(dbCall.task_data, ai_assignment))]
    /\ UNCHANGED <<users, tasks, performance_history, now, completions, graphVars, indexVars>>

NextScore == AssignOnce \/ AssignAgain \/ DbRespond

SpecScore == InitScore /\ [][NextScore]_vars

AssignAnswered == dbCall # DbIdle /\ dbCall.op = "assign"

\* the position of a user id in db.users, 0 if no user has it
PoolIndex(user_id) == FindOne(users, user_id)

\* the open tasks of a candidate
OpenTasks(user_id) ==
    Cardinality({k \in 1..Len(tasks) :
        /\ tasks[k].assigneeId = user_id
        /\ tasks[k].status \in {"CREATED", "IN_PROGRESS"}})

\* skillScore*0.4 + reliabilityScore*0.4 + workloadScore*0.2 + roleBonus +
\* contextBonus of the candidate at position i, times 5000 * |required|
WeightedScore(i, required, deptId) ==
    LET n == Cardinality(required)
        open == OpenTasks(users[i].id)
    IN  2000 * Cardinality(users[i].skills \cap required)
        + 2 * users[i].reliabilityScore * n
        + (IF open >= 5 THEN 0 ELSE 200 * n * (5 - open))
        + (IF users[i].role = "ASSIGNEE" THEN 500 * n ELSE 0)
        + (IF users[i].deptId = deptId THEN 500 * n ELSE 0)

\* C14: whenever the pool has an eligible candidate the score loop selects
\* one, and the selected candidate is eligible and no eligible candidate has
\* a higher weighted score (skills 40%, reliability 40%, workload 20%, plus
\* 0.1 for role ASSIGNEE and 0.1 for the task's department).
C14_WinnerHasMaximumScore ==
    AssignAnswered =>
        \A r \in 1..Len(dbCall.runs) :
            LET required == dbCall.task_data.requiredSkills
                deptId == dbCall.task_data.deptId
                best == dbCall.runs[r].best_match
            IN  /\ (best = NoValue) <=> (EligiblePool(required) = {})
                /\ best # NoValue =>
                    /\ best \in EligiblePool(required)
                    /\ \A i \in 1..Len(users) :
                        users[i].id \in EligiblePool(required)
                        => WeightedScore(PoolIndex(best), required, deptId)
                             >= WeightedScore(i, required, deptId)

\* a run whose winner is the second of two eligible candidates with
\* different scores, one of them with open tasks
C14_Witness ==
    /\ AssignAnswered
    /\ Len(users) = 2
    /\ tasks # <<>>
    /\ EligiblePool(dbCall.task_data.requiredSkills) = {users[1].id, users[2].id}
    /\ dbCall.runs[1].best_match = users[2].id
    /\ users[1].role = users[2].role
    /\ users[1].deptId = users[2].deptId

\* C15: the selected candidate is the first, in pool order, of the eligible
\* candidates with the highest score: every eligible candidate before it
\* has a strictly lower score.
C15_FirstOfTheBestWins ==
    AssignAnswered =>
        \A r \in 1..Len(dbCall.runs) :
            LET required == dbCall.task_data.requiredSkills
                deptId == dbCall.task_data.deptId
                best == dbCall.runs[r].best_match
            IN  best # NoValue =>
                    \A i \in 1..(PoolIndex(best) - 1) :
                        users[i].id \in EligiblePool(required)
                        => WeightedScore(i, required, deptId)
                             < WeightedScore(PoolIndex(best), required, deptId)

\* a run over two eligible candidates alike in every component of the score
C15_Witness ==
    /\ AssignAnswered
    /\ Len(users) = 2
    /\ EligiblePool(dbCall.task_data.requiredSkills) = {users[1].id, users[2].id}
    /\ users[1].role = users[2].role
    /\ users[1].deptId = users[2].deptId
    /\ users[1].reliabilityScore = users[2].reliabilityScore
    /\ users[1].skills = users[2].skills
    /\ tasks = <<>>
    /\ dbCall.runs[1].best_match = users[1].id

\* C17: two runs of the assignment decision for the same task on the same
\* pool, in the same order and with the same open tasks, settle on the same
\* assignee.
C17_SameInputsSameAssignee ==
    (AssignAnswered /\ Len(dbCall.runs) = 2)
    => dbCall.runs[1].assigneeId = dbCall.runs[2].assigneeId

\* the score loop on its own does give both runs the same winner
C17_SameInputsSameBestMatch ==
    (AssignAnswered /\ Len(dbCall.runs) = 2)
    => dbCall.runs[1].best_match = dbCall.runs[2].best_match

(***************************************************************************)
(* SpecPerf: services/performance_service.py on drawn databases: one       *)
(* worker, the tasks assigned to the worker inside and outside the 90-day  *)
(* window, and an earlier observation inside or outside it.                *)
(***************************************************************************)
MaxPerfTasks == 2
MaxRecomputes == 2

\* the clock of these databases: the oldest task is four decay periods old
PerfNow == 5 * DecayPeriodHours

PerfUsers ==
    {<<[NewUser(UserId(1), [email |-> "a@x", role |-> "ASSIGNEE", skills |-> {"python"}])
          EXCEPT !.reliabilityScore = r]>> : r \in {One \div 2, 900}}

\* a task of the worker: created now or four periods ago, its deadline two
\* days after its creation or two days ahead
PerfTasksAt(k) ==
    {NewTask(TaskId(k),
             [assigneeId |-> UserId(1), requiredSkills |-> {"python"},
              deptId |-> "D1", deadline |-> dates[2]],
             UserId(1), dates[1]) :
        dates \in {<<PerfNow, PerfNow + 48>>,
                   <<PerfNow - 4 * DecayPeriodHours, PerfNow - 4 * DecayPeriodHours + 48>>,
                   <<PerfNow - 4 * DecayPeriodHours, PerfNow + 48>>}}

PerfTaskLists ==
    UNION {{ts \in [1..n -> UNION {PerfTasksAt(k) : k \in 1..n}] :
               \A k \in 1..n : ts[k] \in PerfTasksAt(k)} : n \in 0..MaxPerfTasks}

\* the observations recorded before: none, or one of an earlier task
PerfHistories ==
    {<<>>}
    \cup {<<[userId |-> UserId(1), taskId |-> "TASK-0", completedAt |-> completed,
             wasOnTime |-> on_time, quality |-> quality]>> :
            completed \in {PerfNow - DecayPeriodHours, PerfNow - 4 * DecayPeriodHours},
            on_time \in {0, 1},
            quality \in {600}}

InitPerf ==
    /\ IndexUnused
    /\ GraphUnused
    /\ now = PerfNow
    /\ completions = 0
    /\ dbCall = DbIdle
    /\ users \in PerfUsers
    /\ tasks \in PerfTaskLists
    /\ performance_history \in PerfHistories

\* one call of update_user_performance: the score stored before it, the
\* score calculate_user_performance returned, the score stored after it
Recomputation(user_id) ==
    LET after == UpdateUserPerformance(users, performance_history, tasks, user_id, now)
    IN  [stored_before |-> users[FindOne(users, user_id)].reliabilityScore,
         new_score |-> CalculateUserPerformance(performance_history, tasks, user_id, now),
         stored_after |-> after[FindOne(after, user_id)].reliabilityScore]

\* update_user_performance(db, user_id)
UpdatePerformance ==
    /\ dbCall = DbIdle
    /\ \E user_id \in RegisteredIds :
        /\ dbCall' = [op |-> "update_user_performance", user_id |-> user_id,
                      fed |-> FALSE, calls |-> <<Recomputation(user_id)>>]
        /\ users' = UpdateUserPerformance(users, performance_history, tasks, user_id, now)
    /\ UNCHANGED <<tasks, performance_history, now, completions, graphVars, indexVars>>

\* update_user_performance(db, user_id) once more, on the same observations
UpdatePerformanceAgain ==
    /\ dbCall # DbIdle
    /\ dbCall.op = "update_user_performance"
    /\ Len(dbCall.calls) < MaxRecomputes
    /\ dbCall' = [dbCall EXCEPT !.calls = Append(@, Recomputation(dbCall.user_id))]
    /\ users' = UpdateUserPerformance(users, performance_history, tasks, dbCall.user_id, now)
    /\ UNCHANGED <<tasks, performance_history, now, completions, graphVars, indexVars>>

\* the learning step of process_task_completion between two recomputations:
\* an inferred quality of 1.0 at full confidence
FastFeedback ==
    /\ dbCall # DbIdle
    /\ dbCall.op = "update_user_performance"
    /\ ~dbCall.fed
    /\ dbCall' = [dbCall EXCEPT !.fed = TRUE]
    /\ users' = UpdateOne(users, dbCall.user_id,
                    [reliabilityScore |->
                        NewReliability(users[FindOne(users, dbCall.user_id)].reliabilityScore,
                                       One, One)])
    /\ UNCHANGED <<tasks, performance_history, now, completions, graphVars, indexVars>>

NextPerf ==
    \/ CompleteTaskHead
    \/ UpdatePerformance
    \/ UpdatePerformanceAgain
    \/ FastFeedback
    \/ DbRespond

SpecPerf == InitPerf /\ [][NextPerf]_vars

RecomputeAnswered == dbCall # DbIdle /\ dbCall.op = "update_user_performance"

\* the observations of a worker inside the trailing window
ObservationsInWindow(user_id) ==
    {i \in 1..Len(performance_history) :
        /\ performance_history[i].userId = user_id
        /\ now - performance_history[i].completedAt <= WindowHours}

\* the tasks assigned to a worker that were created inside the window
AssignedInWindow(user_id) ==
    {k \in 1..Len(tasks) :
        /\ tasks[k].assigneeId = user_id
        /\ now - tasks[k].createdAt <= WindowHours}

\* C18: for a worker without an observation in the 90-day window, and for a
\* worker without a task assigned in the window, calculate_user_performance
\* returns exactly 0.5.
C18_DefaultScoreIsOneHalf ==
    RecomputeAnswered =>
        ((ObservationsInWindow(dbCall.user_id) = {} \/ AssignedInWindow(dbCall.user_id) = {})
         => \A c \in 1..Len(dbCall.calls) : dbCall.calls[c].new_score = One \div 2)

\* no observation in the window, but an older one, tasks in the window and
\* another score stored before
C18_Witness ==
    /\ RecomputeAnswered
    /\ ObservationsInWindow(dbCall.user_id) = {}
    /\ performance_history # <<>>
    /\ AssignedInWindow(dbCall.user_id) # {}
    /\ dbCall.calls[1].stored_before # One \div 2
    /\ dbCall.calls[1].stored_after = One \div 2

\* an observation in the window and no task assigned in the window
C18_WitnessNoTask ==
    /\ RecomputeAnswered
    /\ ObservationsInWindow(dbCall.user_id) # {}
    /\ AssignedInWindow(dbCall.user_id) = {}
    /\ tasks # <<>>
    /\ dbCall.calls[1].stored_after = One \div 2

HeadCompletionAnswered ==
    /\ dbCall # DbIdle
    /\ dbCall.op = "complete_task"
    /\ dbCall.side = "HEAD"
    /\ dbCall.raised = NoValue

\* the first observation of the completed task's worker was just recorded,
\* with quality 1.0 and on time
FirstPerfectCompletion ==
    /\ HeadCompletionAnswered
    /\ Len(performance_history) = 1
    /\ performance_history[1].taskId = dbCall.task_id
    /\ performance_history[1].quality = One
    /\ performance_history[1].wasOnTime = 1

\* C19: the first completion of a worker, recorded with quality 1.0 and on
\* time, leaves a reliability score above 0.5, whichever task it was.
C19_FirstPerfectCompletionRaisesScore ==
    FirstPerfectCompletion
    => users[FindOne(users, performance_history[1].userId)].reliabilityScore > One \div 2

\* the score does rise where the worker has a task that was created inside
\* the 90-day window
C19_FirstPerfectCompletionInWindowRaisesScore ==
    (FirstPerfectCompletion /\ AssignedInWindow(performance_history[1].userId) # {})
    => users[FindOne(users, performance_history[1].userId)].reliabilityScore > One \div 2

\* C20: on unchanged observations, tasks and clock, every call of
\* update_user_performance computes and stores the same score, whatever was
\* stored before it and however many calls came before.
C20_RecomputeIsFull ==
    RecomputeAnswered =>
        \A c \in 1..Len(dbCall.calls) :
            /\ dbCall.calls[c].new_score = dbCall.calls[1].new_score
            /\ dbCall.calls[c].stored_after = dbCall.calls[1].stored_after
            /\ dbCall.calls[c].stored_after = dbCall.calls[c].new_score

\* two recomputations with the learning step between them, over an
\* observation and a task in the window, none of the stored scores equal
C20_Witness ==
    /\ RecomputeAnswered
    /\ Len(dbCall.calls) = 2
    /\ ObservationsInWindow(dbCall.user_id) # {}
    /\ AssignedInWindow(dbCall.user_id) # {}
    /\ dbCall.calls[1].stored_before # dbCall.calls[1].stored_after
    /\ dbCall.calls[2].stored_before # dbCall.calls[1].stored_after
    /\ dbCall.calls[2].stored_before # dbCall.calls[1].stored_before

(***************************************************************************)
(* SpecLearn: complete_task (incoming side) for a worker with any stored   *)
(* reliabilityScore between 0.0 and 1.0, in thousandths.                   *)
(***************************************************************************)
LearnUsers ==
    {<<[NewUser(UserId(1), [email |-> "a@x", role |-> "ASSIGNEE", skills |-> {"python"}])
          EXCEPT !.reliabilityScore = r]>> : r \in 0..One}

InitLearn ==
    /\ IndexUnused
    /\ GraphUnused
    /\ now = DecayPeriodHours
    /\ performance_history = <<>>
    /\ completions = 0
    /\ dbCall = DbIdle
    /\ users \in LearnUsers
    /\ tasks \in WaitTasks \ {<<>>}

NextLearn == CompleteTaskIncoming \/ DbRespond

SpecLearn == InitLearn /\ [][NextLearn]_vars

\* the distance between two scores
Distance(a, b) == IF a >= b THEN a - b ELSE b - a

\* C21: when the completion advisory raises, writes no JSON or writes an
\* object lacking a field, the completion moves the worker's reliabilityScore
\* by less than 0.05.
C21_FailedAdvisoryMovesScoreLittle ==
    (/\ IncomingCompletionAnswered
     /\ dbCall.consulted
     /\ AdvisoryFailed(dbCall.advisory))
    => Distance(users[FindOne(users, dbCall.assigneeId)].reliabilityScore,
                dbCall.old_reliability) < One \div 20

\* where the fallback values are used, after an advisory that raised or
\* wrote no JSON, the score moves by 0.008 at most
C21_FallbackMovesScoreLittle ==
    (/\ IncomingCompletionAnswered
     /\ dbCall.consulted
     /\ dbCall.advisory.kind \in {"raises", "unparseable"})
    => Distance(users[FindOne(users, dbCall.assigneeId)].reliabilityScore,
                dbCall.old_reliability) <= 8

\* a complete_task call on an existing task was answered, on either side
CompletionAnswered ==
    /\ dbCall # DbIdle
    /\ dbCall.op = "complete_task"
    /\ dbCall.raised = NoValue

\* C22: every complete_task call on an existing task, on either side of the
\* merge, has appended exactly one observation, for that task and its worker.
C22_CompletionAppendsOneObservation ==
    CompletionAnswered
    => /\ Len(performance_history) = dbCall.history_before + 1
       /\ performance_history[Len(performance_history)].taskId = dbCall.task_id
       /\ performance_history[Len(performance_history)].userId = dbCall.assigneeId

\* record_task_completion, the first side, does append exactly one
C22_HeadCompletionAppendsOne ==
    HeadCompletionAnswered
    => /\ Len(performance_history) = dbCall.history_before + 1
       /\ performance_history[Len(performance_history)].taskId = dbCall.task_id
       /\ performance_history[Len(performance_history)].userId = dbCall.assigneeId

\* no step changes or removes an observation that is stored
C22_ObservationsAreKept ==
    [][/\ Len(performance_history') >= Len(performance_history)
       /\ SubSeq(performance_history', 1, Len(performance_history)) = performance_history]_vars

(***************************************************************************)
(* SpecFeed: complete_task (incoming side) of a started task next to the   *)
(* /add handler of the memory index, which the clients of the index call.  *)
(***************************************************************************)
InitFeed ==
    /\ IndexUnused
    /\ GraphUnused
    /\ now = DecayPeriodHours
    /\ performance_history = <<>>
    /\ completions = 0
    /\ dbCall = DbIdle
    /\ users \in PerfUsers
    /\ tasks \in {ts \in WaitTasks \ {<<>>} : ts[1].actualStartDate # NoNumber}

NextFeed ==
    \/ CompleteTaskIncoming
    \/ DbRespond
    \/ AddMemory
    \/ IndexRespond

SpecFeed == InitFeed /\ [][NextFeed]_vars

\* process_task_completion returned its memory text to complete_task
CompletionCommitted ==
    /\ IncomingCompletionAnswered
    /\ dbCall.caught = NoValue

\* the memory index holds a record with this text, next to its vector
InMemoryIndex(text) ==
    \E i \in 1..Len(id_map) :
        /\ id_map[i] \in DOMAIN memory_store
        /\ memory_store[id_map[i]].text = text

\* C23: when complete_task answers a committed completion, the memory text
\* of the completion is a record of the memory index.
C23_CompletionMemoryIsIndexed ==
    CompletionCommitted => InMemoryIndex(dbCall.new_memory_text)

\* no step of complete_task adds to the index, and /add never carries the
\* text of a completion
C23_CompletionLeavesIndexAlone ==
    [][(dbCall' # dbCall) => (index' = index /\ id_map' = id_map /\ memory_store' = memory_store)]_vars

(***************************************************************************)
(* SpecScoreConc: the score loop of create_task statement by statement.    *)
(* Every `await` of the loop hands the event loop to the other requests,   *)
(* whose writes to db.tasks land between two count_documents calls.        *)
(***************************************************************************)
MaxConcTasks == 2
MaxSeen == 3

\* two candidates with the required skill
ConcUsers ==
    {<<[id |-> UserId(1), email |-> "a@x", role |-> "ASSIGNEE", deptId |-> "D1",
        reliabilityScore |-> r, skills |-> {"python"}],
       [id |-> UserId(2), email |-> "b@x", role |-> "ASSIGNEE", deptId |-> "D1",
        reliabilityScore |-> One \div 2, skills |-> {"python"}]>> :
        r \in {One \div 2, 750}}

InitScoreConc ==
    /\ IndexUnused
    /\ GraphUnused
    /\ now = DecayPeriodHours
    /\ performance_history = <<>>
    /\ completions = 0
    /\ dbCall = DbIdle
    /\ users \in ConcUsers
    /\ tasks \in {<<>>} \cup {<<PoolTask(1, UserId(i), "CREATED")>> : i \in 1..2}

Scoring == dbCall # DbIdle /\ dbCall.op = "create_task" /\ dbCall.pc = "count"

\* db.tasks as the other requests leave it; while a score loop runs, the
\* states db.tasks goes through are kept in the call record
TasksChange(ts) ==
    /\ tasks' = ts
    /\ IF Scoring
       THEN /\ Len(dbCall.seen) < MaxSeen
            /\ dbCall' = [dbCall EXCEPT !.seen = Append(@, ts)]
       ELSE UNCHANGED dbCall

\* create_task up to the score loop: users = db.users.find(role != ADMIN)
ScoreStart ==
    /\ dbCall = DbIdle
    /\ Len(tasks) < MaxConcTasks
    /\ dbCall' = [op |-> "create_task", pc |-> "count",
                  task_data |-> [assigneeId |-> NoValue, requiredSkills |-> {"python"},
                                 deptId |-> "D1", deadline |-> now + 48],
                  pool |-> CandidateUsers(users),
                  counts |-> <<>>,
                  best |-> NoBest({"python"}),
                  seen |-> <<tasks>>]
    /\ UNCHANGED <<users, tasks, performance_history, now, completions, graphVars, indexVars>>

\* one pass of the loop: count_documents for the next candidate, its score,
\* and the comparison with the best so far
ScoreCount ==
    /\ Scoring
    /\ Len(dbCall.counts) < Len(dbCall.pool)
    /\ LET user == dbCall.pool[Len(dbCall.counts) + 1]
           active_tasks == ActiveTasks(tasks, user.id)
           score == Score(user, dbCall.task_data.requiredSkills,
                          dbCall.task_data.deptId, active_tasks)
       IN  dbCall' = [dbCall EXCEPT
                        !.counts = Append(@, active_tasks),
                        !.best = IF score > @.score
                                 THEN [match |-> user.id, score |-> score] ELSE @]
    /\ UNCHANGED <<users, tasks, performance_history, now, completions, graphVars, indexVars>>

\* after the loop: db.tasks.insert_one with the winner as assignee
ScoreInsert ==
    /\ Scoring
    /\ Len(dbCall.counts) = Len(dbCall.pool)
    /\ tasks' = Append(tasks, NewTask(TaskId(Len(tasks) + 1), dbCall.task_data,
                                      dbCall.best.match, now))
    /\ dbCall' = [dbCall EXCEPT !.pc = "done"]
    /\ UNCHANGED <<users, performance_history, now, completions, graphVars, indexVars>>

\* another create_task request, with its assignee given, reaches insert_one
OtherCreateTask ==
    /\ Len(tasks) < MaxConcTasks
    /\ \E i \in 1..Len(users) :
        TasksChange(Append(tasks, PoolTask(Len(tasks) + 1, users[i].id, "CREATED")))
    /\ UNCHANGED <<users, performance_history, now, completions, graphVars, indexVars>>

\* an update_task request reaches update_one: the task goes to another
\* worker, or its status changes
OtherUpdateTask ==
    /\ \E k \in 1..Len(tasks) :
        \E fields \in {[assigneeId |-> users[i].id] : i \in 1..Len(users)}
                      \cup {[status |-> "COMPLETED"]} :
            /\ SetFields(tasks[k], fields) # tasks[k]
            /\ TasksChange(UpdateOne(tasks, tasks[k].id, fields))
    /\ UNCHANGED <<users, performance_history, now, completions, graphVars, indexVars>>

ScoreRespond ==
    /\ dbCall # DbIdle
    /\ dbCall.pc = "done"
    /\ dbCall' = DbIdle
    /\ UNCHANGED <<users, tasks, performance_history, now, completions, graphVars, indexVars>>

NextScoreConc ==
    \/ ScoreStart
    \/ ScoreCount
    \/ ScoreInsert
    \/ OtherCreateTask
    \/ OtherUpdateTask
    \/ ScoreRespond

SpecScoreConc == InitScoreConc /\ [][NextScoreConc]_vars

\* the loop of a scoring call has counted every candidate
ScoreLoopDone ==
    /\ dbCall # DbIdle
    /\ dbCall.op = "create_task"
    /\ Len(dbCall.counts) = Len(dbCall.pool)

\* the counts the loop used are those of db.tasks as it was at moment k
CountsAreOf(k) ==
    \A i \in 1..Len(dbCall.pool) :
        dbCall.counts[i] = ActiveTasks(dbCall.seen[k], dbCall.pool[i].id)

\* C25: the active-task counts a scoring call used for its candidates are
\* the counts of one state of db.tasks, one that db.tasks was in during the
\* call.
C25_CountsComeFromOneSnapshot ==
    ScoreLoopDone => \E k \in 1..Len(dbCall.seen) : CountsAreOf(k)

\* with no write of another request during the loop the counts are those of
\* db.tasks at the start of the call
C25_UndisturbedCountsAreConsistent ==
    (ScoreLoopDone /\ dbCall.pc = "count" /\ Len(dbCall.seen) = 1) => CountsAreOf(1)

(***************************************************************************)
(* SpecRag: api_service/rag_integration.py, analyze_user_performance on    *)
(* drawn tasks and answers of the RAG service. The clock and the deadline  *)
(* are in hours.                                                           *)
(***************************************************************************)
\* current_task: a task of db.tasks, or a dict without deadline and priority
RagTasks ==
    {[id |-> TaskId(1), deadline |-> d, priority |-> p, status |-> st] :
        d \in {NoNumber} \cup {DecayPeriodHours + k : k \in {-1, 0, 1, 2, 3, 4, 5, 6, 7}},
        p \in {NoValue, "MEDIUM", "HIGH"},
        st \in {"CREATED", "IN_PROGRESS"}}

\* what requests.post(/search) does: it raises (timeout, refused connection),
\* answers with another status than 200, or answers 200 with a body: a list
\* of results, late_count of them telling of a late or delayed task, or a
\* body whose results lack the field text
RagOutcomes ==
    {[kind |-> "raises", late_count |-> 0], [kind |-> "status_500", late_count |-> 0],
     [kind |-> "no_text", late_count |-> 0]}
    \cup {[kind |-> "results", late_count |-> n] : n \in 0..2}

\* current_task.get("deadline", 0)
DeadlineOf(current_task) ==
    IF current_task.deadline = NoNumber THEN 0 ELSE current_task.deadline

\* _fallback_analysis with `<=` at its thresholds
FallbackAnalysisInclusive(current_task, t) ==
    LET time_remaining == DeadlineOf(current_task) - t
        risk_score == IF time_remaining <= 2 THEN 70
                      ELSE IF time_remaining <= 6 THEN 40 ELSE 20
    IN  [should_escalate |-> risk_score > 50, risk_score |-> risk_score,
         retrieved_memories |-> <<>>]

\* _fallback_analysis
FallbackAnalysis(current_task, t) ==
    LET time_remaining == DeadlineOf(current_task) - t
        risk_score == IF time_remaining < 2 THEN 70
                      ELSE IF time_remaining < 6 THEN 40 ELSE 20
    IN  [should_escalate |-> risk_score > 50, risk_score |-> risk_score,
         retrieved_memories |-> <<>>]

\* _analyze_escalation_need
AnalyzeEscalationNeed(current_task, late_pattern_count, t) ==
    LET time_remaining == DeadlineOf(current_task) - t
        priority == IF current_task.priority = NoValue THEN "MEDIUM" ELSE current_task.priority
        risk_score ==
            (IF time_remaining < 2 THEN 30 ELSE IF time_remaining < 6 THEN 15 ELSE 0)
            + (IF priority = "HIGH" THEN 20 ELSE 0)
            + (IF late_pattern_count >= 2 THEN 25 ELSE 0)
            + (IF current_task.status = "CREATED" /\ time_remaining < 4 THEN 15 ELSE 0)
    IN  [should_escalate |-> risk_score > 50, risk_score |-> risk_score]

\* analyze_user_performance: building the query raises for a task without a
\* usable deadline only inside the try block, as do the request and the
\* reading of the body
AnalyzeUserPerformanceResult(current_task, rag, t) ==
    IF rag.kind = "results"
    THEN LET escalation_needed == AnalyzeEscalationNeed(current_task, rag.late_count, t)
         IN  [should_escalate |-> escalation_needed.should_escalate,
              risk_score |-> escalation_needed.risk_score,
              retrieved_memories |-> [i \in 1..2 |-> IF i <= rag.late_count
                                                      THEN "late" ELSE "on time"]]
    ELSE FallbackAnalysis(current_task, t)

InitRag ==
    /\ IndexUnused
    /\ GraphUnused
    /\ now = DecayPeriodHours
    /\ performance_history = <<>>
    /\ completions = 0
    /\ dbCall = DbIdle
    /\ users = <<>>
    /\ tasks \in {<<current_task>> : current_task \in RagTasks}

AnalyzeUserPerformance ==
    /\ dbCall = DbIdle
    /\ \E rag \in RagOutcomes :
        dbCall' = [op |-> "analyze_user_performance", rag |-> rag, raised |-> NoValue,
                   value |-> AnalyzeUserPerformanceResult(tasks[1], rag, now)]
    /\ UNCHANGED <<users, tasks, performance_history, now, completions, graphVars, indexVars>>

NextRag == AnalyzeUserPerformance \/ DbRespond

SpecRag == InitRag /\ [][NextRag]_vars

AnalysisAnswered == dbCall # DbIdle /\ dbCall.op = "analyze_user_performance"

\* the hours left to the deadline of the task analysed; a task without a
\* deadline counts as due at time 0
HoursRemaining == (IF tasks[1].deadline = NoNumber THEN 0 ELSE tasks[1].deadline) - now

C27_WitnessBoundary ==
    /\ AnalysisAnswered
    /\ dbCall.rag.kind = "results"
    /\ dbCall.value.risk_score = 50
    /\ ~dbCall.value.should_escalate

(***************************************************************************)
(* SpecLearnConc: two runs of process_task_completion for two tasks of one *)
(* worker. A run gives way to the other at each await: after it has read   *)
(* task and user, after the advisory, after the write to db.tasks.         *)
(***************************************************************************)
LearnConcTasks ==
    [i \in 1..2 |->
        SetFields(NewTask(TaskId(i),
                          [assigneeId |-> UserId(1), requiredSkills |-> {"python"},
                           deptId |-> "D1", deadline |-> DecayPeriodHours + 48],
                          UserId(1), DecayPeriodHours),
                  [actualStartDate |-> DecayPeriodHours])]

\* the advisories that let a run reach its learning section
LearnConcAdvisories ==
    {a \in CompletionAdvisories :
        a.kind # "object" \/ (a.result.keys = CompletionKeys /\ a.result.confidence_score <= One)}
    \cup {[kind |-> "object", result |-> AdvisedResult(CompletionKeys, 200, One)]}

InitLearnConc ==
    /\ IndexUnused
    /\ GraphUnused
    /\ now = DecayPeriodHours
    /\ performance_history = <<>>
    /\ completions = 0
    /\ dbCall = DbIdle
    /\ users \in {<<[NewUser(UserId(1), [email |-> "a@x", role |-> "ASSIGNEE",
                                        skills |-> {"python"}])
                        EXCEPT !.reliabilityScore = r]>> : r \in {One \div 2, 900}}
    /\ tasks = LearnConcTasks

\* the two requests arrive
CompletionsArrive ==
    /\ dbCall = DbIdle
    /\ completions = 0
    /\ completions' = 2
    /\ dbCall' = [op |-> "process_task_completion",
                  reliability_before |-> users[1].reliabilityScore,
                  runs |-> [i \in 1..2 |->
                               [pc |-> "context", task_id |-> TaskId(i), alone |-> FALSE,
                                user |-> NoValue, ai_result |-> NoValue]]]
    /\ UNCHANGED <<users, tasks, performance_history, now, graphVars, indexVars>>

Completing == dbCall # DbIdle /\ dbCall.op = "process_task_completion"

\* sections 1 and 2: db.tasks.find_one, db.users.find_one
RunFetchContext ==
    /\ Completing
    /\ \E i \in 1..2 :
        /\ dbCall.runs[i].pc = "context"
        /\ dbCall' = [dbCall EXCEPT
               !.runs[i].pc = "inference",
               !.runs[i].user = users[FindOne(users, tasks[FindOne(tasks, TaskId(i))].assigneeId)],
               !.runs[i].alone = dbCall.runs[3 - i].pc \in {"context", "done"}]
    /\ UNCHANGED <<users, tasks, performance_history, now, completions, graphVars, indexVars>>

\* section 4: await autonomous_completion_inference
RunInference ==
    /\ Completing
    /\ \E i \in 1..2, advisory \in LearnConcAdvisories :
        /\ dbCall.runs[i].pc = "inference"
        /\ dbCall' = [dbCall EXCEPT
               !.runs[i].pc = "commit",
               !.runs[i].ai_result = AutonomousCompletionInference(advisory, 0)]
    /\ UNCHANGED <<users, tasks, performance_history, now, completions, graphVars, indexVars>>

\* section 5: await db.tasks.update_one
RunCommit ==
    /\ Completing
    /\ \E i \in 1..2 :
        /\ dbCall.runs[i].pc = "commit"
        /\ tasks' = UpdateOne(tasks, TaskId(i),
                        [status |-> "COMPLETED",
                         completedAt |-> now,
                         completionQuality |-> dbCall.runs[i].ai_result.inferred_quality_score,
                         actualHours |-> dbCall.runs[i].ai_result.implied_effort_hours,
                         wasOnTime |-> 1,
                         lastAction |-> "AUTO_COMPLETE"])
        /\ dbCall' = [dbCall EXCEPT !.runs[i].pc = "learning"]
    /\ UNCHANGED <<users, performance_history, now, completions, graphVars, indexVars>>

\* section 6: new_reliability from the user read in section 1, and
\* await db.users.update_one
RunLearning ==
    /\ Completing
    /\ \E i \in 1..2 :
        /\ dbCall.runs[i].pc = "learning"
        /\ users' = UpdateOne(users, dbCall.runs[i].user.id,
                        [reliabilityScore |->
                            NewReliability(dbCall.runs[i].user.reliabilityScore,
                                           dbCall.runs[i].ai_result.inferred_quality_score,
                                           dbCall.runs[i].ai_result.confidence_score)])
        /\ dbCall' = [dbCall EXCEPT !.runs[i].pc = "done"]
    /\ UNCHANGED <<tasks, performance_history, now, completions, graphVars, indexVars>>

NextLearnConc ==
    CompletionsArrive \/ RunFetchContext \/ RunInference \/ RunCommit \/ RunLearning

SpecLearnConc == InitLearnConc /\ [][NextLearnConc]_vars

BothRunsDone ==
    Completing /\ \A i \in 1..2 : dbCall.runs[i].pc = "done"

\* the score after the update of run i and then that of run j on the score
\* stored before both
OneAfterTheOther(i, j) ==
    NewReliability(NewReliability(dbCall.reliability_before,
                                  dbCall.runs[i].ai_result.inferred_quality_score,
                                  dbCall.runs[i].ai_result.confidence_score),
                   dbCall.runs[j].ai_result.inferred_quality_score,
                   dbCall.runs[j].ai_result.confidence_score)

\* C28: after two interleaved runs of process_task_completion for one worker
\* the stored reliabilityScore is that of applying both fast-feedback updates
\* one after the other in some order.
C28_NoUpdateIsLost ==
    BothRunsDone =>
        users[1].reliabilityScore \in {OneAfterTheOther(1, 2), OneAfterTheOther(2, 1)}

\* two runs of which one read the user only after the other had finished,
\* or before it had begun, lose nothing
C28_RunsInTurnLoseNothing ==
    (BothRunsDone /\ \A i \in 1..2 : dbCall.runs[i].alone) =>
        users[1].reliabilityScore \in {OneAfterTheOther(1, 2), OneAfterTheOther(2, 1)}

(***************************************************************************)
(* SpecComplete: complete_task, both sides of the merge, on a store with   *)
(* one task whose assignee is or is not a stored user.                     *)
(***************************************************************************)
InitComplete ==
    /\ IndexUnused
    /\ GraphUnused
    /\ now = DecayPeriodHours
    /\ performance_history = <<>>
    /\ completions = 0
    /\ dbCall = DbIdle
    /\ users \in {<<>>} \cup WaitUsers
    /\ tasks \in WaitTasks \ {<<>>}

NextComplete == CompleteTaskHead \/ CompleteTaskIncoming \/ DbRespond

SpecComplete == InitComplete /\ [][NextComplete]_vars

\* C29: a complete_task call on a stored task leaves the task COMPLETED with
\* completedAt set, whatever the autonomous completion raises; a call on an
\* unknown id is answered not-found and changes no task, user or observation.
C29_CompletionAlwaysCompletes ==
    [][(dbCall = DbIdle /\ dbCall' # DbIdle /\ dbCall'.op = "complete_task") =>
          IF FindOne(tasks, dbCall'.task_id) = 0
          THEN /\ dbCall'.raised = "HTTP404"
               /\ UNCHANGED <<tasks, users, performance_history>>
          ELSE /\ dbCall'.raised = NoValue
               /\ tasks'[FindOne(tasks', dbCall'.task_id)].status = "COMPLETED"
               /\ tasks'[FindOne(tasks', dbCall'.task_id)].completedAt = now]_vars

\* the assignee of the task is no stored user: process_task_completion
\* raised ValueError and the task is COMPLETED all the same
C29_Witness ==
    /\ IncomingCompletionAnswered
    /\ dbCall.caught = "ValueError"
    /\ users = <<>>
    /\ tasks[FindOne(tasks, dbCall.task_id)].status = "COMPLETED"
    /\ tasks[FindOne(tasks, dbCall.task_id)].completedAt = now

\* the advisory's object lacked a field
C29_WitnessMalformed ==
    /\ IncomingCompletionAnswered
    /\ dbCall.caught = "KeyError"
    /\ tasks[FindOne(tasks, dbCall.task_id)].status = "COMPLETED"

\* the id of no task: not found, on either side
C29_WitnessUnknown ==
    /\ dbCall # DbIdle
    /\ dbCall.op = "complete_task"
    /\ dbCall.raised = "HTTP404"
    /\ \A i \in 1..Len(tasks) : tasks[i].status = "CREATED"

\* a complete_task call is handled for a stored task that is COMPLETED already
CompletesAgain ==
    /\ dbCall = DbIdle
    /\ dbCall' # DbIdle
    /\ dbCall'.op = "complete_task"
    /\ FindOne(tasks, dbCall'.task_id) # 0
    /\ tasks[FindOne(tasks, dbCall'.task_id)].status = "COMPLETED"

\* C30: a complete_task call on a task that is COMPLETED already changes
\* neither the observation history nor the reliabilityScore of any worker.
C30_CompletedTaskIsNotCountedAgain ==
    [][CompletesAgain =>
          /\ performance_history' = performance_history
          /\ \A i \in 1..Len(users) : users'[i].reliabilityScore = users[i].reliabilityScore]_vars

\* the repeated call leaves the task COMPLETED and stores no observation of
\* another task or another worker
C30_RepeatedCompletionStaysCompleted ==
    [][CompletesAgain =>
          /\ tasks'[FindOne(tasks', dbCall'.task_id)].status = "COMPLETED"
          /\ \A i \in 1..Len(performance_history') :
                performance_history'[i].taskId = dbCall'.task_id]_vars

====
